---------------------------- MODULE Spec2Model ----------------------------
(***************************************************************************)
(* A model of the MIDAS simulation core: the dependency-chain generator    *)
(* and its repair pass, the depends_on relation, the majority-rule grade   *)
(* aggregate, the exponential decay model with its label oracle, and the   *)
(* probability-segment sampler.                                            *)
(*                                                                         *)
(* The generator is a state machine (one action per call or loop pass).    *)
(* Pure functions are operators; each is exercised by a specification      *)
(* whose Init draws the arguments into `args` and whose action stores the  *)
(* value the function returns in `ret`.                                    *)
(***************************************************************************)
EXTENDS Integers, Sequences, FiniteSets, TLC

VARIABLES
    vpc,          \* _validate_dependency_chains: "idle", "loop" or "done"
    chains,       \* the local list `chains` of the repair loop / its result
    input_chains, \* the list the repair loop was called with
    passes,       \* how many iterations of `for _ in range(10)` have run
    fixed,        \* the local flag `fixed` of the last pass
    gpc,          \* generate_installation: position in the call
    config,       \* SimulationConfig fields the generator reads
    count,        \* facility_count drawn by generate_installation
    facilities,   \* the list `facilities` built by _generate_facilities
    installation, \* the Installation of the running generate_installation: <<>> or <<record>>
    systems,      \* the list `all_systems` built by _generate_facilities
    generated,    \* the three lists generate_installations accumulates
    pending,      \* iterations generate_installations has still to run
    segment,      \* a ProbabilitySegment: <<>> or <<[_percentage, _value, _parsed_value]>>
    probability_distribution, \* a ProbabilityDistribution: <<>> or <<[_segments]>>
    args,         \* arguments of the pure function under check
    ret           \* value returned by the pure function under check

vars == <<vpc, chains, input_chains, passes, fixed, gpc, config, count, facilities,
         installation, systems, generated, pending,
         segment, probability_distribution, args, ret>>

validateVars == <<vpc, chains, input_chains, passes, fixed>>
entityVars == <<installation, systems, generated, pending>>
genVars == <<gpc, config, count, facilities, entityVars>>
callVars == <<segment, probability_distribution, args, ret>>

None == "None"

(***************************************************************************)
(* Bounds of the model.                                                    *)
(***************************************************************************)
MaxChains == 2      \* longest chain list handed to the repair pass
MaxGroupId == 2     \* group ids are drawn from 1..MaxGroupId
MaxFacilities == 2  \* largest facility count the generator is configured with
MaxDependents == 10 \* longest list of dependents handed to the grade aggregate
MaxAge == 3         \* largest age_months handed to the decay model
MaxMonthsBeyond == 5 \* how far months_ahead goes beyond the trajectory cap
MaxValueLen == 5    \* longest value string of a ProbabilitySegment
SampleDen == 4      \* random.random() is drawn from {0, 1/SampleDen, ..., 1}
MaxSegments == 3    \* most segments of a ProbabilityDistribution
MaxSystems == 2     \* most systems of a facility
GradedFacilities == 3 \* facilities of the installation whose grades are assigned
MaxSampleAge == 146 \* largest age_months handed to _get_sample_points
MaxYears == 2       \* how many years before the current one a construction year lies
MaxPositionId == 11 \* largest group id of a chain whose position is formatted

Range(s) == {s[i] : i \in DOMAIN s}

Min(a, b) == IF a <= b THEN a ELSE b

Max(a, b) == IF a >= b THEN a ELSE b

(***************************************************************************)
(* domain/enums.py                                                         *)
(***************************************************************************)
PRIMARY == "P"
SECONDARY == "S"
TERTIARY == "T"

DependencyTier == {PRIMARY, SECONDARY, TERTIARY}

\* DependencyTier.ordered(): top of the hierarchy first
ordered == <<PRIMARY, SECONDARY, TERTIARY>>

\* list.index
index(seq, x) == CHOOSE i \in DOMAIN seq : seq[i] = x /\ \A j \in 1..(i - 1) : seq[j] # x

(***************************************************************************)
(* domain/entities.py: DependencyChain                                     *)
(***************************************************************************)
DependencyChain(tier, group_ids) == [tier |-> tier, group_ids |-> group_ids]

\* a mutant of depends_on: the tier comparison is not strict
depends_on_nonstrict(self, other) ==
    IF self.tier = None \/ other.tier = None
    THEN FALSE
    ELSE IF index(ordered, self.tier) > index(ordered, other.tier)
         THEN FALSE
         ELSE Range(self.group_ids) \cap Range(other.group_ids) # {}

\* a mutant of depends_on: the direction of the tier comparison is reversed
depends_on_reversed(self, other) ==
    IF self.tier = None \/ other.tier = None
    THEN FALSE
    ELSE IF index(ordered, self.tier) <= index(ordered, other.tier)
         THEN FALSE
         ELSE Range(self.group_ids) \cap Range(other.group_ids) # {}

depends_on(self, other) ==
    IF self.tier = None \/ other.tier = None
    THEN FALSE
    ELSE LET self_idx == index(ordered, self.tier)
             other_idx == index(ordered, other.tier)
         IN  IF self_idx >= other_idx
             THEN FALSE
             ELSE Range(self.group_ids) \cap Range(other.group_ids) # {}

(***************************************************************************)
(* Argument domains.                                                       *)
(***************************************************************************)
\* lists of distinct group ids, in any order, the empty list included
GroupIdLists ==
    {s \in UNION {[1..k -> 1..MaxGroupId] : k \in 0..MaxGroupId} :
        \A i, j \in DOMAIN s : i # j => s[i] # s[j]}

AnyChain == {DependencyChain(t, g) : t \in DependencyTier \cup {None}, g \in GroupIdLists}

ChainLists == UNION {[1..n -> AnyChain] : n \in 0..MaxChains}

(***************************************************************************)
(* simulation/generator.py: DataGenerator._validate_dependency_chains      *)
(***************************************************************************)
MaxIterations == 10

\* group_tiers[gid][t] as counted at the top of a pass
group_tiers(cs, gid, t) ==
    Cardinality({p \in {<<i, j>> : i \in DOMAIN cs, j \in 1..MaxGroupId} :
                    /\ cs[p[1]].tier = t
                    /\ p[2] \in DOMAIN cs[p[1]].group_ids
                    /\ cs[p[1]].group_ids[p[2]] = gid})

\* a mutant of has_support: TERTIARY chains of the group count as support too
has_support_any_tier(cs, chain) ==
    \E gid \in Range(chain.group_ids) :
        IF chain.tier = SECONDARY
        THEN group_tiers(cs, gid, PRIMARY) > 0
        ELSE /\ chain.tier = TERTIARY
             /\ (\/ group_tiers(cs, gid, PRIMARY) > 0
                 \/ group_tiers(cs, gid, SECONDARY) > 0
                 \/ group_tiers(cs, gid, TERTIARY) > 0)

has_support(cs, chain) ==
    \E gid \in Range(chain.group_ids) :
        IF chain.tier = SECONDARY
        THEN group_tiers(cs, gid, PRIMARY) > 0
        ELSE /\ chain.tier = TERTIARY
             /\ (group_tiers(cs, gid, PRIMARY) > 0 \/ group_tiers(cs, gid, SECONDARY) > 0)

\* needs_fix for one chain of the pass
needs_fix(cs, chain) ==
    /\ chain.tier \in {SECONDARY, TERTIARY}
    /\ ~has_support(cs, chain)

\* a mutant of the promotion: the chain is raised by one tier only
repaired_one_tier_up(cs, chain) ==
    IF chain.tier # None /\ needs_fix(cs, chain)
    THEN DependencyChain(IF chain.tier = TERTIARY THEN SECONDARY ELSE PRIMARY,
                         IF chain.group_ids # <<>> THEN <<chain.group_ids[1]>> ELSE <<1>>)
    ELSE chain

\* a mutant of the promotion: the promoted chain keeps all its group ids
repaired_keeps_group_ids(cs, chain) ==
    IF chain.tier # None /\ needs_fix(cs, chain)
    THEN DependencyChain(PRIMARY,
                         IF chain.group_ids # <<>> THEN chain.group_ids ELSE <<1>>)
    ELSE chain

\* the chain appended to new_chains for `chain`
repaired(cs, chain) ==
    IF chain.tier # None /\ needs_fix(cs, chain)
    THEN DependencyChain(PRIMARY,
                         IF chain.group_ids # <<>> THEN <<chain.group_ids[1]>> ELSE <<1>>)
    ELSE chain

\* entry of _validate_dependency_chains with an arbitrary list
ValidateCall ==
    /\ vpc = "idle"
    /\ vpc' = "loop"
    /\ \E cs \in ChainLists :
           /\ chains' = cs
           /\ input_chains' = cs
    /\ passes' = 0
    /\ fixed' = FALSE
    /\ UNCHANGED <<genVars, callVars>>

\* one iteration of `for _ in range(10)`, up to `if fixed: break`
ValidatePass ==
    /\ vpc = "loop"
    /\ passes < MaxIterations
    /\ LET new_chains == [i \in DOMAIN chains |-> repaired(chains, chains[i])]
           now_fixed == \A i \in DOMAIN chains :
                            ~(chains[i].tier # None /\ needs_fix(chains, chains[i]))
       IN  /\ chains' = new_chains
           /\ fixed' = now_fixed
           /\ passes' = passes + 1
           /\ vpc' = IF now_fixed \/ passes + 1 = MaxIterations THEN "done" ELSE "loop"
    /\ UNCHANGED <<input_chains, genVars, callVars>>



(***************************************************************************)
(* simulation/generator.py: SimpleSegment, _sample_from_distribution,      *)
(* _sample_grade                                                           *)
(***************************************************************************)
SimpleSegment(probability, min_value, max_value) ==
    [probability |-> probability, min_value |-> min_value, max_value |-> max_value]

\* SimulationConfig.grade_distribution as constructed by default
DefaultGradeDistribution ==
    <<SimpleSegment(52, 1, 1), SimpleSegment(32, 2, 2),
      SimpleSegment(12, 3, 3), SimpleSegment(4, 4, 4)>>

RECURSIVE SumProbability(_, _)
SumProbability(distribution, k) ==
    IF k = 0 THEN 0 ELSE SumProbability(distribution, k - 1) + distribution[k].probability

\* the segment _sample_from_distribution returns from for the draw r:
\* the first one whose cumulative probability reaches r, else the last
SelectedSegment(distribution, r) ==
    IF \E k \in DOMAIN distribution : r <= SumProbability(distribution, k)
    THEN distribution[CHOOSE k \in DOMAIN distribution :
            /\ r <= SumProbability(distribution, k)
            /\ \A j \in 1..(k - 1) : r > SumProbability(distribution, j)]
    ELSE distribution[Len(distribution)]

\* int(segment.sample()) for every draw r = random.uniform(0, total_prob) and
\* every value random.uniform(min_value, max_value) of the selected segment
SampledIntegers(distribution) ==
    UNION {LET seg == SelectedSegment(distribution, r)
           IN  seg.min_value..seg.max_value :
           r \in 0..SumProbability(distribution, Len(distribution))}

\* the values _sample_grade can return: UFCGrade(min(max(grade_value, 1), 4))
SampleGrade(distribution) == {Min(Max(v, 1), 4) : v \in SampledIntegers(distribution)}

(***************************************************************************)
(* simulation/generator.py: DataGenerator._calculate_grade_from_dependents *)
(***************************************************************************)
G1 == 1
G2 == 2
G3 == 3
G4 == 4

UFCGrade == {G1, G2, G3, G4}

\* Facility.resiliency_grade when it is None
NoGrade == 0

\* sum(1 for g in grades if g >= k)
AtLeast(grades, k) == Cardinality({i \in DOMAIN grades : grades[i] >= k})

\* a mutant of the majority rule: the 70% threshold is strict
MajorityGradeStrict(grades) ==
    LET total == Len(grades)
    IN  IF 10 * AtLeast(grades, 4) > 7 * total THEN G4
        ELSE IF 10 * AtLeast(grades, 3) > 7 * total THEN G3
        ELSE IF 10 * AtLeast(grades, 2) > 7 * total THEN G2
        ELSE G1

\* lines 387-397: count / total >= 0.7 for each level, highest level first
MajorityGrade(grades) ==
    LET total == Len(grades)
    IN  IF 10 * AtLeast(grades, 4) >= 7 * total THEN G4
        ELSE IF 10 * AtLeast(grades, 3) >= 7 * total THEN G3
        ELSE IF 10 * AtLeast(grades, 2) >= 7 * total THEN G2
        ELSE G1

\* [f.resiliency_grade.value for f in dependents if f.resiliency_grade]
GradesOf(dependents) == SelectSeq(dependents, LAMBDA g : g # NoGrade)

\* `dependents` is the list of the dependents' resiliency_grade fields
\* (NoGrade or a grade); `drawn` is the value _sample_grade returns if it is called
\* a mutant of _calculate_grade_from_dependents: dependents without a grade
\* are treated like no dependents
calculate_grade_from_dependents_draws(dependents, drawn) ==
    IF GradesOf(dependents) = <<>> THEN drawn
    ELSE MajorityGrade(GradesOf(dependents))

calculate_grade_from_dependents(dependents, drawn) ==
    IF dependents = <<>> THEN drawn
    ELSE IF GradesOf(dependents) = <<>> THEN G1
    ELSE MajorityGrade(GradesOf(dependents))

(***************************************************************************)
(* Arithmetic of the decay model.                                          *)
(*                                                                         *)
(* The code computes in binary floating point; the model computes in       *)
(* fixed point.  A condition index is an integer count of 1/CIUnit, so     *)
(* that rounding to 2 decimals (a multiple of CentDen) is not the          *)
(* identity.  A ratio or a root is an integer count of 1/Resolution, a     *)
(* decay rate an integer count of 1/RateDen; RateDen is twice Resolution   *)
(* so that the scaled rates R * 1.5 and R * 0.5 are exact.  Months are     *)
(* kept to whole months: the functions below return the ceiling of the     *)
(* real-valued solution (m <= N holds of the ceiling iff it holds of m).   *)
(***************************************************************************)
CentDen == 10          \* units of condition index per 0.01
Resolution == 1000     \* units of a ratio or root per 1.0

CIUnit == 100 * CentDen
RateDen == 2 * Resolution

\* a condition index given in hundredths
Cents(c) == c * CentDen

\* ExponentialDecayModel.__init__ defaults, in hundredths
DefaultInitialCents == 9999
DefaultThresholdCents == 2500

\* the value returned for "no degradation trend"
Sentinel == 999

\* q ** n with every product rounded down to 1/Resolution
RECURSIVE Pow(_, _)
Pow(q, n) == IF n = 1 THEN q ELSE (Pow(q, n - 1) * q) \div Resolution

\* ratio ** (1 / n) for 0 <= ratio < Resolution: the largest q whose n-th
\* power does not exceed ratio
Root(ratio, n) ==
    CHOOSE q \in 0..Resolution :
        /\ Pow(q, n) <= ratio
        /\ (q = Resolution \/ Pow(q + 1, n) > ratio)

\* ci * (1 - decay_rate)
Decayed(ci, decay_rate) == (ci * (RateDen - decay_rate)) \div RateDen

\* the least n with ci * (1 - decay_rate) ** n <= threshold, for
\* 0 < decay_rate < 1 and ci > threshold > 0: the ceiling of
\* log(threshold / ci) / log(1 - decay_rate)
RECURSIVE MonthsCeiling(_, _, _)
MonthsCeiling(ci, decay_rate, threshold) ==
    IF ci <= threshold THEN 0
    ELSE 1 + MonthsCeiling(Decayed(ci, decay_rate), decay_rate, threshold)

\* the greatest n with ci * (1 - decay_rate) ** n >= threshold: int(months)
RECURSIVE MonthsFloor(_, _, _)
MonthsFloor(ci, decay_rate, threshold) ==
    IF Decayed(ci, decay_rate) < threshold THEN 0
    ELSE 1 + MonthsFloor(Decayed(ci, decay_rate), decay_rate, threshold)

\* math.log(threshold / current_ci) / math.log(1 - decay_rate) inside the
\* try block, for 0 < decay_rate < 1 and current_ci > threshold: the log or
\* the division raises when threshold / current_ci is not positive, and the
\* except clause returns the sentinel
SolveMonths(current_ci, decay_rate, threshold) ==
    IF threshold <= 0 THEN Sentinel
    ELSE Max(0, MonthsCeiling(current_ci, decay_rate, threshold))

(***************************************************************************)
(* prediction/models/decay_model.py: ExponentialDecayModel                 *)
(*                                                                         *)
(* A rate that is None is <<>>, a rate R is <<R>>.                         *)
(***************************************************************************)
\* a mutant of _calculate_decay_rate: a condition index of 0 passes the test
calculate_decay_rate_zero_ci(current_ci, age_months, initial_ci) ==
    IF age_months <= 0 THEN <<>>
    ELSE IF current_ci < 0 \/ initial_ci <= 0 THEN <<>>
    ELSE IF current_ci >= initial_ci THEN <<>>
    ELSE LET ratio == (current_ci * Resolution) \div initial_ci
             decay_rate == RateDen - 2 * Root(ratio, age_months)
         IN  IF decay_rate > 0 THEN <<decay_rate>> ELSE <<>>

calculate_decay_rate(current_ci, age_months, initial_ci) ==
    IF age_months <= 0 THEN <<>>
    ELSE IF current_ci <= 0 \/ initial_ci <= 0 THEN <<>>
    ELSE IF current_ci >= initial_ci THEN <<>>      \* ratio >= 1
    ELSE LET ratio == (current_ci * Resolution) \div initial_ci
             decay_rate == RateDen - 2 * Root(ratio, age_months)
         IN  IF decay_rate > 0 THEN <<decay_rate>> ELSE <<>>

months_until_threshold(current_ci, decay_rate, threshold) ==
    IF decay_rate >= RateDen \/ decay_rate <= 0 THEN Sentinel
    ELSE IF current_ci <= threshold THEN 0
    ELSE SolveMonths(current_ci, decay_rate, threshold)

\* a mutant: the already-degraded test is strict
calculate_months_to_degradation_strict(current_ci, age_months, initial_ci, threshold) ==
    IF current_ci < threshold THEN 0
    ELSE LET decay_rate == calculate_decay_rate(current_ci, age_months, initial_ci)
         IN  IF decay_rate = <<>> \/ decay_rate[1] <= 0 THEN Sentinel
             ELSE months_until_threshold(current_ci, decay_rate[1], threshold)

calculate_months_to_degradation(current_ci, age_months, initial_ci, threshold) ==
    IF current_ci <= threshold THEN 0
    ELSE LET decay_rate == calculate_decay_rate(current_ci, age_months, initial_ci)
         IN  IF decay_rate = <<>> \/ decay_rate[1] <= 0 THEN Sentinel
             ELSE months_until_threshold(current_ci, decay_rate[1], threshold)

\* round(ci, 2): the nearest multiple of 0.01, a value halfway between two
\* going to the even one
Round2(ci) ==
    LET lo == (ci \div CentDen) * CentDen
        rem == ci - lo
    IN  IF 2 * rem < CentDen THEN lo
        ELSE IF 2 * rem > CentDen THEN lo + CentDen
        ELSE IF (ci \div CentDen) % 2 = 0 THEN lo ELSE lo + CentDen

\* `range(1, min(months_ahead + 1, 121))` stops before this month
TrajectoryCap == 121

\* the locals of _generate_trajectory before its loop
TrajectoryStart(current_ci, decay_rate, months_ahead, threshold) ==
    [trajectory |-> <<<<0, current_ci>>>>,
     ci |-> current_ci,
     month |-> 0,
     stop |-> Min(months_ahead + 1, TrajectoryCap),
     decay_rate |-> decay_rate,
     threshold |-> threshold,
     returned |-> FALSE]

\* int(months) for the months _calculate_months_to_degradation returns
int_months_to_degradation(current_ci, age_months, initial_ci, threshold) ==
    IF current_ci <= threshold THEN 0
    ELSE LET decay_rate == calculate_decay_rate(current_ci, age_months, initial_ci)
         IN  IF decay_rate = <<>> \/ decay_rate[1] <= 0 THEN Sentinel
             ELSE IF decay_rate[1] >= RateDen THEN Sentinel
             ELSE IF threshold <= 0 THEN Sentinel
             ELSE MonthsFloor(current_ci, decay_rate[1], threshold)

\* one row of predict_with_uncertainty, up to the call of _generate_trajectory;
\* confidence_low and confidence_high are kept in half months
PredictRow(current_ci, age_months, initial_ci, threshold) ==
    LET months == calculate_months_to_degradation(current_ci, age_months, initial_ci, threshold)
        decay_rate == calculate_decay_rate(current_ci, age_months, initial_ci)
    IN  IF decay_rate # <<>> /\ decay_rate[1] > 0
        THEN LET fast_decay == (decay_rate[1] * 3) \div 2
                 slow_decay == decay_rate[1] \div 2
                 months_fast == months_until_threshold(current_ci, fast_decay, threshold)
                 months_slow == months_until_threshold(current_ci, slow_decay, threshold)
             IN  [months_to_degradation |-> months,
                  decay_rate |-> decay_rate,
                  fast_decay |-> <<fast_decay>>,
                  slow_decay |-> <<slow_decay>>,
                  confidence_low |-> 2 * months_fast,
                  confidence_high |-> 2 * months_slow,
                  predicted_trajectory |->
                      <<TrajectoryStart(current_ci, decay_rate[1],
                            int_months_to_degradation(current_ci, age_months,
                                                      initial_ci, threshold),
                            threshold)>>]
        ELSE [months_to_degradation |-> months,
              decay_rate |-> decay_rate,
              fast_decay |-> <<>>,
              slow_decay |-> <<>>,
              confidence_low |-> months,
              confidence_high |-> 4 * months,
              predicted_trajectory |-> <<>>]

(***************************************************************************)
(* prediction/datasets.py: TrainingDataGenerator                           *)
(***************************************************************************)
compute_decay_rate(current_ci, age_months, initial_ci) ==
    IF age_months <= 0 THEN <<>>
    ELSE IF current_ci <= 0 \/ initial_ci <= 0 THEN <<>>
    ELSE IF current_ci >= initial_ci THEN <<>>      \* ratio >= 1
    ELSE LET ratio == (current_ci * Resolution) \div initial_ci
             decay_rate == RateDen - 2 * Root(ratio, age_months)
         IN  IF decay_rate > 0 THEN <<decay_rate>> ELSE <<>>

\* _compute_degradation_rate: the rate, 0.0 when it is None
compute_degradation_rate(current_ci, age_months, initial_ci) ==
    LET rate == compute_decay_rate(current_ci, age_months, initial_ci)
    IN  IF rate # <<>> THEN rate[1] ELSE 0

\* a mutant: an undefined rate is reported as already degraded
compute_months_to_degradation_zero(current_ci, age_months, initial_ci, threshold) ==
    IF current_ci <= threshold THEN 0
    ELSE LET decay_rate == compute_decay_rate(current_ci, age_months, initial_ci)
         IN  IF decay_rate = <<>> \/ decay_rate[1] <= 0 THEN 0
             ELSE IF decay_rate[1] >= RateDen THEN 0
             ELSE SolveMonths(current_ci, decay_rate[1], threshold)

compute_months_to_degradation(current_ci, age_months, initial_ci, threshold) ==
    IF current_ci <= threshold THEN 0
    ELSE LET decay_rate == compute_decay_rate(current_ci, age_months, initial_ci)
         IN  IF decay_rate = <<>> \/ decay_rate[1] <= 0 THEN Sentinel
             ELSE IF decay_rate[1] >= RateDen THEN 0
             ELSE SolveMonths(current_ci, decay_rate[1], threshold)

\* LabelType
MONTHS_TO_DEGRADATION == "months_to_degradation"
DEGRADATION_RATE == "degradation_rate"
WILL_DEGRADE_6MO == "will_degrade_6mo"
WILL_DEGRADE_12MO == "will_degrade_12mo"
WILL_DEGRADE_24MO == "will_degrade_24mo"

LabelType ==
    {MONTHS_TO_DEGRADATION, DEGRADATION_RATE,
     WILL_DEGRADE_6MO, WILL_DEGRADE_12MO, WILL_DEGRADE_24MO}

\* the condition index _compute_label falls back to
FallbackCents == 5000

\* `entity.condition_index or 50.0` and `entity.age_months or 0`: None
\* (here <<>>) and 0 are both replaced
current_ci_of(entity) ==
    IF entity.condition_index = <<>> \/ entity.condition_index[1] = 0
    THEN Cents(FallbackCents)
    ELSE entity.condition_index[1]

age_months_of(entity) ==
    IF entity.age_months = <<>> THEN 0 ELSE entity.age_months[1]

\* _compute_label; a months label is a whole number of months (the ceiling)
\* and a rate label is in units of 1 / RateDen
compute_label(entity, label_type, initial_ci, threshold) ==
    LET current_ci == current_ci_of(entity)
        age_months == age_months_of(entity)
        months == compute_months_to_degradation(current_ci, age_months, initial_ci, threshold)
    IN  IF label_type = MONTHS_TO_DEGRADATION THEN months
        ELSE IF label_type = DEGRADATION_RATE
        THEN compute_degradation_rate(current_ci, age_months, initial_ci)
        ELSE IF label_type = WILL_DEGRADE_6MO THEN (IF months <= 6 THEN 1 ELSE 0)
        ELSE IF label_type = WILL_DEGRADE_12MO THEN (IF months <= 12 THEN 1 ELSE 0)
        ELSE IF label_type = WILL_DEGRADE_24MO THEN (IF months <= 24 THEN 1 ELSE 0)
        ELSE 0

(***************************************************************************)
(* Calls of the decay model and of the label oracle.  `args` holds         *)
(* current_ci, age_months and the configured initial_ci and                *)
(* degradation_threshold; `ret` holds <<[op, ...]>> once called.           *)
(***************************************************************************)
CallCalculateMonths ==
    /\ ret = <<>>
    /\ ret' = <<[op |-> "_calculate_months_to_degradation",
                 months |-> calculate_months_to_degradation(
                     args.current_ci, args.age_months,
                     args.initial_ci, args.degradation_threshold)]>>
    /\ UNCHANGED <<segment, probability_distribution, args, validateVars, genVars>>

CallComputeMonths ==
    /\ ret = <<>>
    /\ ret' = <<[op |-> "_compute_months_to_degradation",
                 months |-> compute_months_to_degradation(
                     args.current_ci, args.age_months,
                     args.initial_ci, args.degradation_threshold)]>>
    /\ UNCHANGED <<segment, probability_distribution, args, validateVars, genVars>>

CallCalculateDecayRate ==
    /\ ret = <<>>
    /\ ret' = <<[op |-> "_calculate_decay_rate",
                 rate |-> calculate_decay_rate(
                     args.current_ci, args.age_months, args.initial_ci)]>>
    /\ UNCHANGED <<segment, probability_distribution, args, validateVars, genVars>>

CallComputeDecayRate ==
    /\ ret = <<>>
    /\ ret' = <<[op |-> "_compute_decay_rate",
                 rate |-> compute_decay_rate(
                     args.current_ci, args.age_months, args.initial_ci)]>>
    /\ UNCHANGED <<segment, probability_distribution, args, validateVars, genVars>>

CallComputeDegradationRate ==
    /\ ret = <<>>
    /\ ret' = <<[op |-> "_compute_degradation_rate",
                 label |-> compute_degradation_rate(
                     args.current_ci, args.age_months, args.initial_ci)]>>
    /\ UNCHANGED <<segment, probability_distribution, args, validateVars, genVars>>

\* _compute_label(entity) under config.label_type; `args` holds the entity's
\* condition_index and age_months (<<>> when None) and the configuration
CallComputeLabel ==
    /\ ret = <<>>
    /\ ret' = <<[op |-> "_compute_label",
                 label |-> compute_label(args.entity, args.label_type,
                                         args.initial_ci, args.degradation_threshold)]>>
    /\ UNCHANGED <<segment, probability_distribution, args, validateVars, genVars>>

CallPredictWithUncertainty ==
    /\ ret = <<>>
    /\ ret' = <<[op |-> "predict_with_uncertainty",
                 prediction |-> PredictRow(args.current_ci, args.age_months,
                                           args.initial_ci, args.degradation_threshold)]>>
    /\ UNCHANGED <<segment, probability_distribution, args, validateVars, genVars>>

\* the loop state of the _generate_trajectory call in progress, if any
Running ==
    IF ret = <<>> THEN <<>>
    ELSE IF ret[1].op = "_generate_trajectory" THEN <<ret[1].locals>>
    ELSE IF ret[1].op = "predict_with_uncertainty" THEN ret[1].prediction.predicted_trajectory
    ELSE <<>>

SetRunning(t) ==
    IF ret[1].op = "_generate_trajectory"
    THEN ret' = <<[ret[1] EXCEPT !.locals = t]>>
    ELSE ret' = <<[ret[1] EXCEPT !.prediction.predicted_trajectory = <<t>>]>>

\* one iteration of `for month in range(1, min(months_ahead + 1, 121))`
TrajectoryMonth ==
    /\ Running # <<>>
    /\ LET t == Running[1]
           month == t.month + 1
           ci == Decayed(t.ci, t.decay_rate)
       IN  /\ ~t.returned
           /\ month < t.stop
           /\ SetRunning([t EXCEPT !.ci = ci,
                                   !.month = month,
                                   !.trajectory = Append(@, <<month, Round2(ci)>>),
                                   !.returned = (ci <= t.threshold)])
    /\ UNCHANGED <<segment, probability_distribution, args, validateVars, genVars>>

\* the range is exhausted: `return trajectory`
TrajectoryReturn ==
    /\ Running # <<>>
    /\ LET t == Running[1]
       IN  /\ ~t.returned
           /\ t.month + 1 >= t.stop
           /\ SetRunning([t EXCEPT !.returned = TRUE])
    /\ UNCHANGED <<segment, probability_distribution, args, validateVars, genVars>>

\* entry of _generate_trajectory; `args` holds its arguments and the threshold
CallGenerateTrajectory ==
    /\ ret = <<>>
    /\ ret' = <<[op |-> "_generate_trajectory",
                 locals |-> TrajectoryStart(args.current_ci, args.decay_rate,
                                            args.months_ahead, args.degradation_threshold)]>>
    /\ UNCHANGED <<segment, probability_distribution, args, validateVars, genVars>>

(***************************************************************************)
(* simulation/distributions.py: ProbabilitySegment                         *)
(*                                                                         *)
(* A value string is a sequence of one-character strings.  A parsed value  *)
(* is [kind |-> "None"], [kind |-> "int"] with left = right the integer,   *)
(* or [kind |-> "tuple"] with the pair (left, right).                      *)
(***************************************************************************)
DigitChars == <<"0", "1", "2", "3", "4", "5", "6", "7", "8", "9">>

IsDigit(c) == \E i \in DOMAIN DigitChars : DigitChars[i] = c

DigitValue(c) == (CHOOSE i \in DOMAIN DigitChars : DigitChars[i] = c) - 1

\* str.strip()
RECURSIVE Strip(_)
Strip(str) ==
    IF str = <<>> THEN <<>>
    ELSE IF Head(str) = " " THEN Strip(Tail(str))
    ELSE IF str[Len(str)] = " " THEN Strip(SubSeq(str, 1, Len(str) - 1))
    ELSE str

RECURSIVE DecimalValue(_)
DecimalValue(digits) ==
    IF digits = <<>> THEN 0
    ELSE 10 * DecimalValue(SubSeq(digits, 1, Len(digits) - 1)) + DigitValue(digits[Len(digits)])

\* int(str.strip()): <<n>>, or <<>> when int raises ValueError
IntOf(str) ==
    LET t == Strip(str)
    IN  IF t = <<>> \/ \E i \in DOMAIN t : ~IsDigit(t[i]) THEN <<>>
        ELSE <<DecimalValue(t)>>

ParsedNone == [kind |-> "None", left |-> 0, right |-> 0]
ParsedInt(n) == [kind |-> "int", left |-> n, right |-> n]
ParsedTuple(l, r) == [kind |-> "tuple", left |-> l, right |-> r]

\* a mutant of _parse_value: a reversed range is not swapped
parse_value_no_swap(value) ==
    LET dashes == {i \in DOMAIN value : value[i] = "-"}
    IN  IF Cardinality(dashes) = 1
        THEN LET d == CHOOSE i \in dashes : TRUE
                 left == IntOf(SubSeq(value, 1, d - 1))
                 right == IntOf(SubSeq(value, d + 1, Len(value)))
             IN  IF left = <<>> \/ right = <<>> THEN ParsedNone
                 ELSE IF left[1] # right[1] THEN ParsedTuple(left[1], right[1])
                 ELSE ParsedInt(left[1])
        ELSE IF IntOf(value) = <<>> THEN ParsedNone ELSE ParsedInt(IntOf(value)[1])

\* _parse_value: with exactly one "-" the two parts are parsed and ordered
\* (None if either is not an integer); otherwise the whole string is parsed,
\* which fails whenever it holds a "-"
parse_value(value) ==
    LET dashes == {i \in DOMAIN value : value[i] = "-"}
    IN  IF Cardinality(dashes) = 1
        THEN LET d == CHOOSE i \in dashes : TRUE
                 left == IntOf(SubSeq(value, 1, d - 1))
                 right == IntOf(SubSeq(value, d + 1, Len(value)))
             IN  IF left = <<>> \/ right = <<>> THEN ParsedNone
                 ELSE IF left[1] > right[1] THEN ParsedTuple(right[1], left[1])
                 ELSE IF left[1] # right[1] THEN ParsedTuple(left[1], right[1])
                 ELSE ParsedInt(left[1])
        ELSE IF dashes # {} \/ IntOf(value) = <<>> THEN ParsedNone
        ELSE ParsedInt(IntOf(value)[1])

\* the property parsed_value: the cache, filled by _parse_value when it is None
parsed_value(seg) ==
    IF seg._parsed_value = ParsedNone THEN parse_value(seg._value) ELSE seg._parsed_value

\* the value sample() falls back to
FallbackSample == 50

\* sample() for the draw u / SampleDen of random.random(), in units of
\* 1 / SampleDen: random.uniform(a, b) is a + (b - a) * random.random()
sample(parsed, u) ==
    IF parsed.kind = "tuple" THEN parsed.left * SampleDen + (parsed.right - parsed.left) * u
    ELSE IF parsed.kind = "int" THEN parsed.left * SampleDen
    ELSE FallbackSample * SampleDen

\* the value strings and percentages a segment is built from
ValueChars == {"0", "2", "4", "-", " ", "a"}

ValueStrings == UNION {[1..n -> ValueChars] : n \in 0..MaxValueLen}

Percentages == {0, 1, 100, 101}

\* the value None, which is no string
NoneValue == <<"None">>

\* 1 <= percentage <= 100
valid_percentage_from_zero(percentage) == 0 <= percentage /\ percentage <= 100

valid_percentage(percentage) == 1 <= percentage /\ percentage <= 100

\* not (value is None or str(value).strip() == "")
valid_value(value) == ~(value = NoneValue \/ Strip(value) = <<>>)

\* ProbabilitySegment(percentage, value), for every percentage and value
\* string within the bounds
NewProbabilitySegment ==
    /\ segment = <<>>
    /\ ret = <<>>
    /\ \E percentage \in Percentages, value \in ValueStrings :
           IF ~valid_percentage(percentage) \/ ~valid_value(value)
           THEN /\ ret' = <<[op |-> "__init__", raised |-> "ValueError"]>>
                /\ UNCHANGED segment
           ELSE /\ segment' = <<[_percentage |-> percentage,
                                 _value |-> value,
                                 _parsed_value |-> ParsedNone]>>
                /\ ret' = <<[op |-> "__init__", raised |-> "no"]>>
    /\ UNCHANGED <<probability_distribution, args, validateVars, genVars>>

\* a read of the property parsed_value
ReadParsedValue ==
    /\ segment # <<>>
    /\ LET parsed == parsed_value(segment[1])
       IN  /\ segment' = <<[segment[1] EXCEPT !._parsed_value = parsed]>>
           /\ ret' = <<[op |-> "parsed_value", value |-> parsed]>>
    /\ UNCHANGED <<probability_distribution, args, validateVars, genVars>>

\* sample()
Sample ==
    /\ segment # <<>>
    /\ LET parsed == parsed_value(segment[1])
       IN  /\ segment' = <<[segment[1] EXCEPT !._parsed_value = parsed]>>
           /\ \E u \in 0..SampleDen :
                  ret' = <<[op |-> "sample", value |-> sample(parsed, u)]>>
    /\ UNCHANGED <<probability_distribution, args, validateVars, genVars>>

\* the arguments the constructor and the setters are called with: "50",
\* "20-40", "40-20", "7-7", "abc", "1-2-3", "-5", " 4 ", "", " ", None
ArgumentValues ==
    { <<"5", "0">>, <<"2", "0", "-", "4", "0">>, <<"4", "0", "-", "2", "0">>,
      <<"7", "-", "7">>, <<"a", "b", "c">>, <<"1", "-", "2", "-", "3">>,
      <<"-", "5">>, <<" ", "4", " ">>, <<>>, <<" ">>, NoneValue }

\* ProbabilitySegment(percentage, value); `ret` keeps the arguments
NewSegment ==
    /\ segment = <<>>
    /\ \E percentage \in Percentages, value \in ArgumentValues :
           IF ~valid_percentage(percentage) \/ ~valid_value(value)
           THEN /\ ret' = <<[op |-> "ProbabilitySegment", percentage |-> percentage,
                             assigned |-> value, raised |-> "ValueError"]>>
                /\ UNCHANGED segment
           ELSE /\ segment' = <<[_percentage |-> percentage,
                                 _value |-> value,
                                 _parsed_value |-> ParsedNone]>>
                /\ ret' = <<[op |-> "ProbabilitySegment", percentage |-> percentage,
                             assigned |-> value, raised |-> "no"]>>
    /\ UNCHANGED <<probability_distribution, args, validateVars, genVars>>

\* a mutant of the value setter: the cache is kept
value_setter_keeps_cache(seg, value) == [seg EXCEPT !._value = value]

\* the value setter past its check: the string is stored, the cache dropped
value_setter(seg, value) == [seg EXCEPT !._value = value, !._parsed_value = ParsedNone]

\* segment.value = value
SetValue ==
    /\ segment # <<>>
    /\ \E value \in ArgumentValues :
           IF ~valid_value(value)
           THEN /\ ret' = <<[op |-> "value.setter", assigned |-> value,
                             raised |-> "ValueError"]>>
                /\ UNCHANGED segment
           ELSE /\ segment' = <<value_setter(segment[1], value)>>
                /\ ret' = <<[op |-> "value.setter", assigned |-> value, raised |-> "no"]>>
    /\ UNCHANGED <<probability_distribution, args, validateVars, genVars>>

\* segment.percentage = percent
SetPercentage ==
    /\ segment # <<>>
    /\ \E percent \in Percentages :
           IF ~valid_percentage(percent)
           THEN /\ ret' = <<[op |-> "percentage.setter", percentage |-> percent,
                             raised |-> "ValueError"]>>
                /\ UNCHANGED segment
           ELSE /\ segment' = <<[segment[1] EXCEPT !._percentage = percent]>>
                /\ ret' = <<[op |-> "percentage.setter", percentage |-> percent,
                             raised |-> "no"]>>
    /\ UNCHANGED <<probability_distribution, args, validateVars, genVars>>

\* is_range_value()
IsRangeValue ==
    /\ segment # <<>>
    /\ LET parsed == parsed_value(segment[1])
       IN  /\ segment' = <<[segment[1] EXCEPT !._parsed_value = parsed]>>
           /\ ret' = <<[op |-> "is_range_value", is_range |-> parsed.kind = "tuple"]>>
    /\ UNCHANGED <<probability_distribution, args, validateVars, genVars>>

(***************************************************************************)
(* simulation/distributions.py: ProbabilityDistribution                    *)
(***************************************************************************)
\* the segment lists a distribution is built from: up to MaxSegments
\* segments of value "50", the empty list included
DistributionPercentages == {1, 2, 100}

SegmentLists ==
    UNION {[1..n -> {[_percentage |-> p, _value |-> <<"5", "0">>, _parsed_value |-> ParsedNone] :
                         p \in DistributionPercentages}] : n \in 0..MaxSegments}

\* ProbabilityDistribution(segments)
NewProbabilityDistribution ==
    /\ probability_distribution = <<>>
    /\ \E segments \in SegmentLists :
           IF segments = <<>>
           THEN /\ ret' = <<[op |-> "ProbabilityDistribution", segments |-> segments,
                             raised |-> "ValueError"]>>
                /\ UNCHANGED probability_distribution
           ELSE /\ probability_distribution' = <<[_segments |-> segments]>>
                /\ ret' = <<[op |-> "ProbabilityDistribution", segments |-> segments,
                             raised |-> "no"]>>
    /\ UNCHANGED <<segment, args, validateVars, genVars>>

\* sum(segment._percentage for segment in segments[:k])
RECURSIVE SumPercentage(_, _)
SumPercentage(segments, k) ==
    IF k = 0 THEN 0 ELSE SumPercentage(segments, k - 1) + segments[k]._percentage

\* a mutant of select_random_segment: the test is rand <= cumulative
select_random_segment_nonstrict(segments, k) ==
    IF \E i \in DOMAIN segments : k <= SumPercentage(segments, i)
    THEN CHOOSE i \in DOMAIN segments :
             /\ k <= SumPercentage(segments, i)
             /\ \A j \in 1..(i - 1) : ~(k <= SumPercentage(segments, j))
    ELSE Len(segments)

\* select_random_segment for rand = k / total, total the sum of all
\* percentages: cumulative is SumPercentage / total after each segment, so
\* `rand < cumulative` is k < SumPercentage; the index of the segment
\* returned, the last one after the loop
select_random_segment(segments, k) ==
    IF \E i \in DOMAIN segments : k < SumPercentage(segments, i)
    THEN CHOOSE i \in DOMAIN segments :
             /\ k < SumPercentage(segments, i)
             /\ \A j \in 1..(i - 1) : ~(k < SumPercentage(segments, j))
    ELSE Len(segments)

\* distribution.select_random_segment(), called once on a new distribution,
\* for every draw of random.random() that selects differently: k / total for
\* k in 0..total-1
SelectRandomSegment ==
    /\ probability_distribution # <<>>
    /\ ret[1].op = "ProbabilityDistribution"
    /\ LET segments == probability_distribution[1]._segments
           total == SumPercentage(segments, Len(segments))
       IN  \E k \in 0..(total - 1) :
               ret' = <<[op |-> "select_random_segment",
                         rand |-> <<k, total>>,
                         index |-> select_random_segment(segments, k),
                         segment |-> segments[select_random_segment(segments, k)]]>>
    /\ UNCHANGED <<segment, probability_distribution, args, validateVars, genVars>>

(***************************************************************************)
(* simulation/generator.py: ids, systems and condition indices.  A         *)
(* condition index is a whole number of hundredths; uuid4() gives every    *)
(* entity an id of its own, here its kind and position.                    *)
(***************************************************************************)
InstallationId(n) == <<"installation", n>>
FacilityId(n, i) == <<"facility", n, i>>
SystemId(n, i, j) == <<"system", n, i, j>>

\* condition_index when it is None
NoCI == -1

RECURSIVE Flatten(_)
Flatten(lists) == IF lists = <<>> THEN <<>> ELSE Head(lists) \o Flatten(Tail(lists))

RECURSIVE Sum(_)
Sum(values) == IF values = <<>> THEN 0 ELSE Head(values) + Sum(Tail(values))

\* _sample_condition_index: round(segment.sample(), 2) for the segment a
\* draw selects, at both ends of the segment and one hundredth above the
\* lower end
SampleConditionIndex(distribution) ==
    UNION {LET seg == SelectedSegment(distribution, r)
           IN  {100 * seg.min_value, 100 * seg.max_value}
                   \cup (IF seg.min_value < seg.max_value THEN {100 * seg.min_value + 1} ELSE {}) :
           r \in 0..SumProbability(distribution, Len(distribution))}

\* the condition indices of the systems _generate_systems returns for one
\* facility: one per system type of the facility, or random.randint(3, 8)
\* of them, the number being within config.systems_per_facility
GeneratedSystems(cfg) ==
    UNION {[1..k -> SampleConditionIndex(cfg.condition_index_distribution)] :
               k \in cfg.systems_per_facility[1]..cfg.systems_per_facility[2]}

\* round(sum(ci_values) / len(ci_values), 2): the nearest hundredth, either
\* neighbour when the quotient is halfway (the float nearest to x.xx5 lies on
\* one side or the other)
RoundedMean(ci_values) ==
    LET total == Sum(ci_values)
        n == Len(ci_values)
        q == total \div n
        rem == total % n
    IN  IF 2 * rem < n THEN {q}
        ELSE IF 2 * rem > n THEN {q + 1}
        ELSE {q, q + 1}

\* ci_values = [c.condition_index for c in children if c.condition_index]
\* and the condition index assigned from it, None when ci_values is empty
condition_index_of(children) ==
    LET ci_values == SelectSeq(children, LAMBDA c : c # NoCI /\ c # 0)
    IN  IF ci_values = <<>> THEN {NoCI} ELSE RoundedMean(ci_values)

\* every condition index a facility can be given under cfg
AggregateValues(cfg) == UNION {condition_index_of(cis) : cis \in GeneratedSystems(cfg)}

(***************************************************************************)
(* simulation/generator.py: DataGenerator._generate_dependency_chains      *)
(***************************************************************************)
\* sorted(random.sample(range(lo, hi + 1), k)): the sorted k-subsets of lo..hi
RECURSIVE SortedList(_)
SortedList(S) ==
    IF S = {} THEN <<>>
    ELSE LET m == CHOOSE x \in S : \A y \in S : x <= y
         IN  <<m>> \o SortedList(S \ {m})

SampledGroupIds(group_range) ==
    LET lo == group_range[1]
        hi == group_range[2]
    IN  {SortedList(S) : S \in {T \in SUBSET (lo..hi) :
            \E group_count \in lo..hi : Cardinality(T) = Min(group_count, hi - lo + 1)}}

\* the chains the sampling loop can build for `n` facilities
SampledChains(n, group_range) ==
    [1..n -> {DependencyChain(t, g) : t \in DependencyTier, g \in SampledGroupIds(group_range)}]

\* a mutant of _generate_dependency_chains: the count == 1 shortcut is missing
GenerateDependencyChainsNoShortcut ==
    /\ gpc = "chains"
    /\ gpc' = "facilities"
    /\ IF count = 0
       THEN /\ chains' = <<>>
            /\ UNCHANGED <<vpc, input_chains, passes, fixed>>
       ELSE \E cs \in SampledChains(count, config.dependency_group_range) :
                /\ chains' = cs
                /\ input_chains' = cs
                /\ vpc' = "loop"
                /\ passes' = 0
                /\ fixed' = FALSE
    /\ UNCHANGED <<config, count, facilities, entityVars, callVars>>

GenerateDependencyChains ==
    /\ gpc = "chains"
    /\ gpc' = "facilities"
    /\ IF count = 0
       THEN /\ chains' = <<>>
            /\ UNCHANGED <<vpc, input_chains, passes, fixed>>
       ELSE IF count = 1
       THEN /\ chains' = <<DependencyChain(PRIMARY, <<1>>)>>
            /\ UNCHANGED <<vpc, input_chains, passes, fixed>>
       ELSE \E cs \in SampledChains(count, config.dependency_group_range) :
                /\ chains' = cs
                /\ input_chains' = cs
                /\ vpc' = "loop"
                /\ passes' = 0
                /\ fixed' = FALSE
    /\ UNCHANGED <<config, count, facilities, entityVars, callVars>>

(***************************************************************************)
(* simulation/generator.py: DataGenerator.generate_installation and        *)
(* _generate_facilities                                                    *)
(***************************************************************************)
\* facility_count = random.randint(*self.config.facilities_per_installation)
GenerateInstallation ==
    /\ gpc = "start"
    /\ gpc' = "chains"
    /\ \E n \in config.facilities_per_installation[1]..config.facilities_per_installation[2] :
           count' = n
    /\ installation' = <<[id |-> InstallationId(Len(generated.installations) + 1),
                          facility_ids |-> <<>>,
                          condition_index |-> NoCI]>>
    /\ UNCHANGED <<config, facilities, systems, generated, pending, validateVars, callVars>>

\* the loop `for i in range(count)` of _generate_facilities, once
\* _generate_dependency_chains has returned, and what generate_installation
\* does with the lists it returns: facility_ids and the installation's
\* condition index
GenerateFacilities ==
    /\ gpc = "facilities"
    /\ vpc # "loop"
    /\ gpc' = "grades_tertiary"
    /\ \E cis \in [1..count -> GeneratedSystems(config)] :
       \E fci \in {f \in [1..count -> AggregateValues(config)] :
                       \A i \in 1..count : f[i] \in condition_index_of(cis[i])} :
           LET n == installation[1].id[2]
               fs == [i \in 1..count |->
                        [id |-> FacilityId(n, i),
                         installation_id |-> installation[1].id,
                         system_ids |-> [j \in 1..Len(cis[i]) |-> SystemId(n, i, j)],
                         condition_index |-> fci[i],
                         dependency_chain |-> IF i <= Len(chains) THEN chains[i]
                                              ELSE DependencyChain(None, <<>>),
                         resiliency_grade |-> NoGrade]]
               ss == [i \in 1..count |->
                        [j \in 1..Len(cis[i]) |->
                            [id |-> SystemId(n, i, j),
                             facility_id |-> FacilityId(n, i),
                             condition_index |-> cis[i][j]]]]
           IN  /\ facilities' = fs
               /\ systems' = Flatten(ss)
               /\ \E ici \in condition_index_of(fci) :
                      installation' = <<[installation[1] EXCEPT
                                            !.facility_ids = [i \in 1..count |-> fs[i].id],
                                            !.condition_index = ici]>>
    /\ UNCHANGED <<config, count, generated, pending, validateVars, callVars>>

(***************************************************************************)
(* simulation/generator.py: DataGenerator._assign_resiliency_grades and    *)
(* _find_dependents                                                        *)
(***************************************************************************)
\* indices, in list order, of the facilities of target_tier that
\* facility i's chain depends_on
find_dependents(fs, i, target_tier) ==
    SelectSeq([k \in 1..Len(fs) |-> k],
              LAMBDA k : /\ fs[k].dependency_chain.tier = target_tier
                         /\ depends_on(fs[i].dependency_chain, fs[k].dependency_chain))

GradesAt(fs, deps) == [j \in 1..Len(deps) |-> fs[deps[j]].resiliency_grade]

\* by_tier[tier]
by_tier(fs, tier) == {i \in DOMAIN fs : fs[i].dependency_chain.tier = tier}

\* a mutant of the TERTIARY loop: no grade is assigned
AssignTertiaryGradesSkipped ==
    /\ gpc = "grades_tertiary"
    /\ gpc' = "grades_secondary"
    /\ UNCHANGED <<facilities, config, count, entityVars, validateVars, callVars>>

\* `for f in by_tier[TERTIARY]`: every grade is a draw of its own
AssignTertiaryGrades ==
    /\ gpc = "grades_tertiary"
    /\ gpc' = "grades_secondary"
    /\ \E drawn \in [by_tier(facilities, TERTIARY) -> SampleGrade(config.grade_distribution)] :
           facilities' = [i \in DOMAIN facilities |->
               IF i \in by_tier(facilities, TERTIARY)
               THEN [facilities[i] EXCEPT !.resiliency_grade = drawn[i]]
               ELSE facilities[i]]
    /\ UNCHANGED <<config, count, entityVars, validateVars, callVars>>

\* `for f in by_tier[SECONDARY]`: aggregate over the TERTIARY dependents
AssignSecondaryGrades ==
    /\ gpc = "grades_secondary"
    /\ gpc' = "grades_primary"
    /\ \E drawn \in [by_tier(facilities, SECONDARY) -> SampleGrade(config.grade_distribution)] :
           facilities' = [i \in DOMAIN facilities |->
               IF i \in by_tier(facilities, SECONDARY)
               THEN [facilities[i] EXCEPT !.resiliency_grade =
                        calculate_grade_from_dependents(
                            GradesAt(facilities, find_dependents(facilities, i, TERTIARY)),
                            drawn[i])]
               ELSE facilities[i]]
    /\ UNCHANGED <<config, count, entityVars, validateVars, callVars>>

\* a mutant of the PRIMARY loop: s_deps is left out of the aggregate
AssignPrimaryGradesTertiaryOnly ==
    /\ gpc = "grades_primary"
    /\ gpc' = "done"
    /\ \E drawn \in [by_tier(facilities, PRIMARY) -> SampleGrade(config.grade_distribution)] :
           facilities' = [i \in DOMAIN facilities |->
               IF i \in by_tier(facilities, PRIMARY)
               THEN [facilities[i] EXCEPT !.resiliency_grade =
                        calculate_grade_from_dependents(
                            GradesAt(facilities, find_dependents(facilities, i, TERTIARY)),
                            drawn[i])]
               ELSE facilities[i]]
    /\ UNCHANGED <<config, count, entityVars, validateVars, callVars>>

\* `for f in by_tier[PRIMARY]`: aggregate over t_deps + s_deps, then return
AssignPrimaryGrades ==
    /\ gpc = "grades_primary"
    /\ gpc' = "done"
    /\ \E drawn \in [by_tier(facilities, PRIMARY) -> SampleGrade(config.grade_distribution)] :
           facilities' = [i \in DOMAIN facilities |->
               IF i \in by_tier(facilities, PRIMARY)
               THEN [facilities[i] EXCEPT !.resiliency_grade =
                        calculate_grade_from_dependents(
                            GradesAt(facilities, find_dependents(facilities, i, TERTIARY))
                                \o GradesAt(facilities, find_dependents(facilities, i, SECONDARY)),
                            drawn[i])]
               ELSE facilities[i]]
    /\ UNCHANGED <<config, count, entityVars, validateVars, callVars>>

(***************************************************************************)
(* simulation/generator.py: DataGenerator.generate_installations           *)
(***************************************************************************)
NoneGenerated == [installations |-> <<>>, facilities |-> <<>>, systems |-> <<>>]

\* the counts generate_installations is called with
InstallationCounts == {0, 1, 2}

\* generate_installations(count): the lists start empty; with count 0 the
\* loop body never runs
GenerateInstallations ==
    /\ gpc = "idle"
    /\ \E n \in InstallationCounts :
           /\ pending' = n
           /\ gpc' = IF n = 0 THEN "returned" ELSE "start"
           /\ args' = [count |-> n]
    /\ generated' = NoneGenerated
    /\ UNCHANGED <<config, count, facilities, installation, systems, validateVars,
                   segment, probability_distribution, ret>>

\* a mutant of the loop body: the new facilities are put in front
CollectInstallationInFront ==
    /\ gpc = "done"
    /\ pending > 0
    /\ generated' = [installations |-> Append(generated.installations, installation[1]),
                     facilities |-> facilities \o generated.facilities,
                     systems |-> generated.systems \o systems]
    /\ pending' = pending - 1
    /\ gpc' = IF pending = 1 THEN "returned" ELSE "start"
    /\ UNCHANGED <<config, count, facilities, installation, systems, validateVars, callVars>>

\* the rest of the loop body once generate_installation has returned:
\* append and extend, then the next iteration or the return
CollectInstallation ==
    /\ gpc = "done"
    /\ pending > 0
    /\ generated' = [installations |-> Append(generated.installations, installation[1]),
                     facilities |-> generated.facilities \o facilities,
                     systems |-> generated.systems \o systems]
    /\ pending' = pending - 1
    /\ gpc' = IF pending = 1 THEN "returned" ELSE "start"
    /\ UNCHANGED <<config, count, facilities, installation, systems, validateVars, callVars>>

(***************************************************************************)
(* Specifications.                                                         *)
(***************************************************************************)
ValidateIdle ==
    /\ vpc = "idle"
    /\ chains = <<>>
    /\ input_chains = <<>>
    /\ passes = 0
    /\ fixed = FALSE

GenIdle ==
    /\ gpc = "idle"
    /\ config = [facilities_per_installation |-> <<0, 0>>,
                 dependency_group_range |-> <<1, 1>>,
                 grade_distribution |-> DefaultGradeDistribution,
                 systems_per_facility |-> <<1, 1>>,
                 condition_index_distribution |-> <<SimpleSegment(100, 50, 50)>>]
    /\ count = 0
    /\ facilities = <<>>
    /\ installation = <<>>
    /\ systems = <<>>
    /\ generated = NoneGenerated
    /\ pending = 0

\* `ret` is <<>> before the call and <<v>> once v is returned
CallIdle ==
    /\ segment = <<>>
    /\ probability_distribution = <<>>
    /\ args = None
    /\ ret = <<>>

\* the repair pass on an arbitrary list of chains
InitValidate == ValidateIdle /\ GenIdle /\ CallIdle

NextValidate ==
    \/ ValidateCall
    \/ ValidatePass

SpecValidate == InitValidate /\ [][NextValidate]_vars

\* generate_installation with the facility count fixed to 1 or drawn from
\* 0..MaxFacilities, under every group-id range within the bounds
Configs ==
    [facilities_per_installation : {<<1, 1>>, <<0, MaxFacilities>>},
     dependency_group_range : {r \in (1..MaxGroupId) \X (1..MaxGroupId) : r[1] <= r[2]},
     grade_distribution : {DefaultGradeDistribution},
     systems_per_facility : {<<1, 1>>},
     condition_index_distribution : {<<SimpleSegment(100, 50, 50)>>}]

InitGen ==
    /\ ValidateIdle
    /\ CallIdle
    /\ gpc = "start"
    /\ config \in Configs
    /\ count = 0
    /\ facilities = <<>>
    /\ installation = <<>>
    /\ systems = <<>>
    /\ generated = NoneGenerated
    /\ pending = 0

NextGen ==
    \/ GenerateInstallation
    \/ GenerateDependencyChains
    \/ ValidatePass
    \/ GenerateFacilities
    \/ AssignTertiaryGrades
    \/ AssignSecondaryGrades
    \/ AssignPrimaryGrades

SpecGen == InitGen /\ [][NextGen]_vars

\* DependencyChain.depends_on on every pair of chains within the bounds
InitDependsOn ==
    /\ ValidateIdle
    /\ GenIdle
    /\ segment = <<>>
    /\ probability_distribution = <<>>
    /\ args \in [self : AnyChain, other : AnyChain]
    /\ ret = <<>>

CallDependsOn ==
    /\ ret = <<>>
    /\ ret' = <<depends_on(args.self, args.other)>>
    /\ UNCHANGED <<segment, probability_distribution, args, validateVars, genVars>>

SpecDependsOn == InitDependsOn /\ [][CallDependsOn]_vars

\* _calculate_grade_from_dependents on every list of dependents' grades within
\* the bound; the result depends on the list only through how often each
\* grade occurs, so the lists are enumerated in non-decreasing order
Repeat(v, n) == [i \in 1..n |-> v]

DependentGrades ==
    {Repeat(NoGrade, c[1]) \o Repeat(G1, c[2]) \o Repeat(G2, c[3])
        \o Repeat(G3, c[4]) \o Repeat(G4, c[5]) :
     c \in {k \in [1..5 -> 0..MaxDependents] :
                k[1] + k[2] + k[3] + k[4] + k[5] <= MaxDependents}}

InitGrade ==
    /\ ValidateIdle
    /\ GenIdle
    /\ segment = <<>>
    /\ probability_distribution = <<>>
    /\ args \in DependentGrades
    /\ ret = <<>>

CallCalculateGrade ==
    /\ ret = <<>>
    /\ \E drawn \in SampleGrade(DefaultGradeDistribution) :
           ret' = <<calculate_grade_from_dependents(args, drawn)>>
    /\ UNCHANGED <<segment, probability_distribution, args, validateVars, genVars>>

SpecGrade == InitGrade /\ [][CallCalculateGrade]_vars

\* the decay model and the label oracle on every input within the bounds
DecayCIs ==
    {Cents(-500), 0, Cents(1000), Cents(2500), Cents(3000),
     Cents(6000), Cents(9000), Cents(9999), Cents(12000)}

DecayInputs ==
    [current_ci : DecayCIs,
     age_months : (-1)..MaxAge,
     initial_ci : {Cents(DefaultInitialCents), Cents(5000), 0, Cents(-100), Cents(-1000)},
     degradation_threshold : {Cents(DefaultThresholdCents), Cents(5000), 0}]

InitDecay ==
    /\ ValidateIdle
    /\ GenIdle
    /\ segment = <<>>
    /\ probability_distribution = <<>>
    /\ args \in DecayInputs
    /\ ret = <<>>

NextDecay ==
    \/ CallCalculateMonths
    \/ CallComputeMonths
    \/ CallCalculateDecayRate
    \/ CallComputeDecayRate
    \/ CallComputeDegradationRate
    \/ CallPredictWithUncertainty
    \/ TrajectoryMonth
    \/ TrajectoryReturn

SpecDecay == InitDecay /\ [][NextDecay]_vars

\* _generate_trajectory on positive condition indices with up to 3 decimals,
\* rates in (0,1) and months_ahead on both sides of the cap
TrajectoryInputs ==
    [current_ci : {Cents(c) + k : c \in {199, 3000, 9999}, k \in {0, CentDen - 3}},
     decay_rate : {1, Resolution, RateDen - 1},
     months_ahead : {-1, 0, 1, TrajectoryCap - 2, TrajectoryCap - 1, TrajectoryCap + MaxMonthsBeyond},
     degradation_threshold : {Cents(DefaultThresholdCents), 0}]

InitTrajectory ==
    /\ ValidateIdle
    /\ GenIdle
    /\ segment = <<>>
    /\ probability_distribution = <<>>
    /\ args \in TrajectoryInputs
    /\ ret = <<>>

NextTrajectory ==
    \/ CallGenerateTrajectory
    \/ TrajectoryMonth
    \/ TrajectoryReturn

SpecTrajectory == InitTrajectory /\ [][NextTrajectory]_vars

\* a ProbabilitySegment is built, then read and sampled
InitSegment == ValidateIdle /\ GenIdle /\ CallIdle

NextSegment ==
    \/ NewProbabilitySegment
    \/ ReadParsedValue
    \/ Sample

SpecSegment == InitSegment /\ [][NextSegment]_vars

\* a ProbabilitySegment is built, then assigned to, read and sampled in any
\* order; a ProbabilityDistribution is built
InitSegmentOps == ValidateIdle /\ GenIdle /\ CallIdle

NextSegmentOps ==
    \/ NewSegment
    \/ SetValue
    \/ SetPercentage
    \/ ReadParsedValue
    \/ IsRangeValue
    \/ Sample
    \/ NewProbabilityDistribution

SpecSegmentOps == InitSegmentOps /\ [][NextSegmentOps]_vars

\* generate_installation under configurations whose systems differ in
\* number and in condition index, 0.0 included
AggregateConfigs ==
    [facilities_per_installation : {<<0, 2>>},
     dependency_group_range : {<<1, 1>>},
     grade_distribution : {<<SimpleSegment(100, 2, 2)>>},
     systems_per_facility : {<<1, MaxSystems>>},
     condition_index_distribution : {<<SimpleSegment(100, 0, 1)>>,
                                     <<SimpleSegment(50, 0, 0), SimpleSegment(50, 50, 50)>>}]

InitAggregate ==
    /\ ValidateIdle
    /\ CallIdle
    /\ gpc = "start"
    /\ config \in AggregateConfigs
    /\ count = 0
    /\ facilities = <<>>
    /\ installation = <<>>
    /\ systems = <<>>
    /\ generated = NoneGenerated
    /\ pending = 0

SpecAggregate == InitAggregate /\ [][NextGen]_vars

\* generate_installations(N), and generate_installation inside it
EntityConfigs ==
    [facilities_per_installation : {<<0, 1>>, <<1, 2>>},
     dependency_group_range : {<<1, 1>>},
     grade_distribution : {<<SimpleSegment(100, 2, 2)>>},
     systems_per_facility : {<<1, MaxSystems>>},
     condition_index_distribution : {<<SimpleSegment(100, 50, 50)>>}]

InitEntities ==
    /\ ValidateIdle
    /\ CallIdle
    /\ gpc = "idle"
    /\ config \in EntityConfigs
    /\ count = 0
    /\ facilities = <<>>
    /\ installation = <<>>
    /\ systems = <<>>
    /\ generated = NoneGenerated
    /\ pending = 0

NextEntities ==
    \/ GenerateInstallations
    \/ GenerateInstallation
    \/ GenerateDependencyChains
    \/ ValidatePass
    \/ GenerateFacilities
    \/ AssignTertiaryGrades
    \/ AssignSecondaryGrades
    \/ AssignPrimaryGrades
    \/ CollectInstallation

SpecEntities == InitEntities /\ [][NextEntities]_vars

\* _compute_label on entities with and without a condition index and an age
LabelInputs ==
    [entity : [condition_index : {<<>>} \cup {<<c>> : c \in DecayCIs},
               age_months : {<<>>} \cup {<<a>> : a \in (-1)..MaxAge}],
     label_type : LabelType,
     initial_ci : {Cents(DefaultInitialCents)},
     degradation_threshold : {Cents(DefaultThresholdCents), Cents(5000)}]

InitLabel ==
    /\ ValidateIdle
    /\ GenIdle
    /\ segment = <<>>
    /\ probability_distribution = <<>>
    /\ args \in LabelInputs
    /\ ret = <<>>

NextLabel == CallComputeLabel

SpecLabel == InitLabel /\ [][NextLabel]_vars

\* a ProbabilityDistribution is built and segments are selected from it
InitSelect == ValidateIdle /\ GenIdle /\ CallIdle

NextSelect ==
    \/ NewProbabilityDistribution
    \/ SelectRandomSegment

SpecSelect == InitSelect /\ [][NextSelect]_vars

\* generate_installation for GradedFacilities facilities with group ids drawn
\* from 1..2 and grades drawn from G1 and G4
GradeConfigs ==
    [facilities_per_installation : {<<GradedFacilities, GradedFacilities>>},
     dependency_group_range : {<<1, 2>>},
     grade_distribution : {<<SimpleSegment(50, 1, 1), SimpleSegment(50, 4, 4)>>},
     systems_per_facility : {<<1, 1>>},
     condition_index_distribution : {<<SimpleSegment(100, 50, 50)>>}]

InitGrades ==
    /\ ValidateIdle
    /\ CallIdle
    /\ gpc = "start"
    /\ config \in GradeConfigs
    /\ count = 0
    /\ facilities = <<>>
    /\ installation = <<>>
    /\ systems = <<>>
    /\ generated = NoneGenerated
    /\ pending = 0

SpecGrades == InitGrades /\ [][NextGen]_vars

(***************************************************************************)
(* simulation/export/transformers.py: DataTransformer._get_sample_points   *)
(***************************************************************************)
\* list(range(start, stop, step)) for a positive step
PyRange(start, stop, step) ==
    [i \in 1..Max(0, (stop - start + step - 1) \div step) |-> start + (i - 1) * step]

\* the list `points` before the construction date is added
sampled_months(age_months) ==
    <<0>> \o PyRange(1, Min(25, age_months + 1), 1)
          \o PyRange(27, Min(121, age_months + 1), 3)
          \o PyRange(132, age_months + 1, 12)

\* a mutant of _get_sample_points: the construction date is not added
get_sample_points_without_age(age_months) ==
    SortedList(Range(sampled_months(age_months)))

get_sample_points(age_months) ==
    LET points == sampled_months(age_months)
    IN  SortedList(Range(IF age_months \notin Range(points)
                         THEN points \o <<age_months>>
                         ELSE points))

\* _get_sample_points on every age from -2 to MaxSampleAge
SampleAges == (0 - 2)..MaxSampleAge

InitSamplePoints ==
    /\ ValidateIdle
    /\ GenIdle
    /\ segment = <<>>
    /\ probability_distribution = <<>>
    /\ args \in [age_months : SampleAges]
    /\ ret = <<>>

CallGetSamplePoints ==
    /\ ret = <<>>
    /\ DOMAIN args = {"age_months"}
    /\ ret' = <<[op |-> "_get_sample_points", points |-> get_sample_points(args.age_months)]>>
    /\ UNCHANGED <<segment, probability_distribution, args, validateVars, genVars>>

SpecSamplePoints == InitSamplePoints /\ [][CallGetSamplePoints]_vars

(***************************************************************************)
(* simulation/export/transformers.py: DataTransformer._calculate_historical_ci *)
(* and _generate_flat_series                                               *)
(*                                                                         *)
(* A series is a list of records (months_ago, condition_index, date), the  *)
(* date string "YYYY-MM" being the pair <<year, month>>.                   *)
(***************************************************************************)
\* datetime.now().year
NowYear == 2026

\* date_str of the sample point months_ago
date_str(now, months_ago) ==
    LET total_months == now.year * 12 + now.month - 1
        past_total_months == total_months - months_ago
    IN  <<past_total_months \div 12, (past_total_months % 12) + 1>>

generate_flat_series(current_ci, age_months, now) ==
    LET sample_points == get_sample_points(age_months)
    IN  [i \in DOMAIN sample_points |->
            [months_ago |-> sample_points[i],
             condition_index |-> Round2(current_ci),
             date |-> date_str(now, sample_points[i])]]

\* initial_ci * ((1 - decay_rate) ** age_at_point), 1 - decay_rate being
\* `root` in 1/Resolution
ci_at_point(initial_ci, root, age_at_point) ==
    IF age_at_point <= 0 THEN initial_ci
    ELSE (initial_ci * Pow(root, age_at_point)) \div Resolution

\* a mutant of _calculate_historical_ci: the age of a sample point is counted
\* from now, not from the construction date
decayed_series_from_now(current_ci, age_months, initial_ci, root, now) ==
    LET sample_points == get_sample_points(age_months)
    IN  [i \in DOMAIN sample_points |->
            [months_ago |-> sample_points[i],
             condition_index |-> Round2(ci_at_point(initial_ci, root, sample_points[i])),
             date |-> date_str(now, sample_points[i])]]

\* the loop `for months_ago in sample_points` of _calculate_historical_ci
decayed_series(current_ci, age_months, initial_ci, root, now) ==
    LET sample_points == get_sample_points(age_months)
    IN  [i \in DOMAIN sample_points |->
            [months_ago |-> sample_points[i],
             condition_index |->
                 Round2(ci_at_point(initial_ci, root, age_months - sample_points[i])),
             date |-> date_str(now, sample_points[i])]]

\* initial_ci is positive (the callers pass 99.99), so that ratio <= 0 and
\* ratio >= 1 are tests on current_ci
calculate_historical_ci(current_ci, year_constructed, initial_ci, now) ==
    LET years == now.year - year_constructed
        age_months == years * 12 + now.month - 1
    IN  IF age_months <= 0
        THEN <<[months_ago |-> 0, condition_index |-> current_ci,
                date |-> <<now.year, now.month>>]>>
        ELSE IF current_ci <= 0 \/ current_ci >= initial_ci
        THEN generate_flat_series(current_ci, age_months, now)
        ELSE LET ratio == (current_ci * Resolution) \div initial_ci
                 root == Root(ratio, age_months)
                 decay_rate == RateDen - 2 * root
             IN  IF decay_rate <= 0 \/ decay_rate >= RateDen
                 THEN generate_flat_series(current_ci, age_months, now)
                 ELSE decayed_series(current_ci, age_months, initial_ci, root, now)

\* condition indices of two decimals, as the generator rounds them, on both
\* sides of 0 and of initial_ci; construction years from next year back to
\* MaxYears years ago; the call made in January, June or December
HistoricalInputs ==
    [current_ci : {Cents(c) : c \in {0 - 500, 0, 100, 2500, 5000, 9998, 9999, 10000}},
     year_constructed : (NowYear - MaxYears)..(NowYear + 1),
     initial_ci : {Cents(DefaultInitialCents), Cents(5000)},
     now : [year : {NowYear}, month : {1, 6, 12}]]

InitHistorical ==
    /\ ValidateIdle
    /\ GenIdle
    /\ segment = <<>>
    /\ probability_distribution = <<>>
    /\ args \in HistoricalInputs
    /\ ret = <<>>

CallCalculateHistoricalCI ==
    /\ ret = <<>>
    /\ DOMAIN args = {"current_ci", "year_constructed", "initial_ci", "now"}
    /\ ret' = <<[op |-> "_calculate_historical_ci",
                 series |-> calculate_historical_ci(args.current_ci, args.year_constructed,
                                                    args.initial_ci, args.now)]>>
    /\ UNCHANGED <<segment, probability_distribution, args, validateVars, genVars>>

SpecHistorical == InitHistorical /\ [][CallCalculateHistoricalCI]_vars

(***************************************************************************)
(* config/settings.py: SimulationSettings, SimulationDistributions;        *)
(* simulation/generator.py: SimulationConfig.from_settings and             *)
(* DataGenerator.__init__                                                  *)
(***************************************************************************)
\* ProbabilitySegment(percentage, value) as SimulationDistributions builds it
ProbabilitySegment(percentage, value) ==
    [_percentage |-> percentage, _value |-> value, _parsed_value |-> ParsedNone]

\* SimulationDistributions.__post_init__ defaults
DefaultSettingsConditionIndex ==
    <<ProbabilitySegment(7, <<"1", "-", "5", "0">>), ProbabilitySegment(88, <<"5", "0", "-", "8", "5">>),
      ProbabilitySegment(5, <<"8", "5", "-", "1", "0", "0">>)>>

DefaultSettingsAge ==
    <<ProbabilitySegment(50, <<"2", "0", "-", "4", "0">>), ProbabilitySegment(20, <<"1", "0", "-", "2", "0">>),
      ProbabilitySegment(20, <<"4", "1", "-", "8", "0">>), ProbabilitySegment(10, <<"0", "-", "9">>)>>

DefaultSettingsGrade ==
    <<ProbabilitySegment(52, <<"1">>), ProbabilitySegment(32, <<"2">>),
      ProbabilitySegment(12, <<"3">>), ProbabilitySegment(4, <<"4">>)>>

\* SimulationConfig field defaults
DefaultConditionIndexDistribution ==
    <<SimpleSegment(7, 1, 50), SimpleSegment(88, 50, 85), SimpleSegment(5, 85, 100)>>

DefaultAgeDistribution ==
    <<SimpleSegment(10, 0, 9), SimpleSegment(20, 10, 20),
      SimpleSegment(50, 20, 40), SimpleSegment(20, 41, 80)>>

\* SimulationConfig.from_settings: the four range and age fields are passed,
\* the three distributions keep their field defaults; systems_per_facility
\* stands for one system type per facility
from_settings(settings) ==
    [facilities_per_installation |-> settings.simulation.facilities_per_installation,
     dependency_group_range |-> settings.simulation.dependency_chain_group_range,
     max_facility_age |-> settings.simulation.maximum_facility_age,
     max_system_age |-> settings.simulation.maximum_system_age,
     condition_index_distribution |-> DefaultConditionIndexDistribution,
     age_distribution |-> DefaultAgeDistribution,
     grade_distribution |-> DefaultGradeDistribution,
     systems_per_facility |-> <<1, 1>>]

\* settings with the default distributions or with distributions of a single
\* value each, a facility count of 1 or of 1 to 2, and a maximum system age
\* below the default
SettingsInputs ==
    [simulation : [facilities_per_installation : {<<1, 1>>, <<1, 2>>},
                   dependency_chain_group_range : {<<1, 1>>},
                   maximum_system_age : {10},
                   maximum_facility_age : {80}],
     distributions : {[condition_index |-> DefaultSettingsConditionIndex,
                       age |-> DefaultSettingsAge,
                       grade |-> DefaultSettingsGrade],
                      [condition_index |-> <<ProbabilitySegment(100, <<"1", "0">>)>>,
                       age |-> <<ProbabilitySegment(100, <<"5">>)>>,
                       grade |-> <<ProbabilitySegment(100, <<"4">>)>>]}]

InitSettings ==
    /\ ValidateIdle
    /\ GenIdle
    /\ segment = <<>>
    /\ probability_distribution = <<>>
    /\ args \in [settings : SettingsInputs]
    /\ ret = <<>>

\* DataGenerator(settings): self.config = SimulationConfig.from_settings(settings)
NewDataGenerator ==
    /\ gpc = "idle"
    /\ DOMAIN args = {"settings"}
    /\ gpc' = "start"
    /\ config' = from_settings(args.settings)
    /\ UNCHANGED <<count, facilities, entityVars, validateVars, callVars>>

NextSettings ==
    \/ NewDataGenerator
    \/ NextGen

SpecSettings == InitSettings /\ [][NextSettings]_vars

(***************************************************************************)
(* The label oracle next to the analytical model: both months functions on *)
(* the same arguments.  The inputs include a condition index of one unit,  *)
(* whose ratio to initial_ci lies below 1/Resolution: its root at age 1 is *)
(* 0 and its rate 1.0, as 1 - ratio is 1.0 in floating point for a ratio   *)
(* below 2 ** -53.                                                         *)
(***************************************************************************)
OracleInputs ==
    [current_ci : {Cents(0 - 500), 0, 1, Cents(1000), Cents(2500), Cents(3000),
                   Cents(6000), Cents(9999), Cents(12000)},
     age_months : (0 - 1)..MaxAge,
     initial_ci : {Cents(DefaultInitialCents), Cents(5000)},
     degradation_threshold : {Cents(DefaultThresholdCents), 0}]

InitOracle ==
    /\ ValidateIdle
    /\ GenIdle
    /\ segment = <<>>
    /\ probability_distribution = <<>>
    /\ args \in OracleInputs
    /\ ret = <<>>

\* TrainingDataGenerator._compute_months_to_degradation and
\* ExponentialDecayModel._calculate_months_to_degradation called with the same
\* current_ci and age_months under the same threshold and initial_ci
CallBothMonths ==
    /\ ret = <<>>
    /\ ret' = <<[op |-> "months_to_degradation",
                 rate |-> calculate_decay_rate(args.current_ci, args.age_months,
                                               args.initial_ci),
                 label |-> compute_months_to_degradation(
                     args.current_ci, args.age_months,
                     args.initial_ci, args.degradation_threshold),
                 months |-> calculate_months_to_degradation(
                     args.current_ci, args.age_months,
                     args.initial_ci, args.degradation_threshold)]>>
    /\ UNCHANGED <<segment, probability_distribution, args, validateVars, genVars>>

SpecOracle == InitOracle /\ [][CallBothMonths]_vars

(***************************************************************************)
(* domain/entities.py: DependencyChain.position and from_position;         *)
(* domain/enums.py: DependencyTier.from_value                              *)
(*                                                                         *)
(* A string is the sequence of its characters; the position None is        *)
(* NoneValue.                                                              *)
(***************************************************************************)
\* str(g) for g >= 0
RECURSIVE Str(_)
Str(g) ==
    IF g < 10 THEN <<DigitChars[g + 1]>>
    ELSE Str(g \div 10) \o <<DigitChars[(g % 10) + 1]>>

\* ''.join(str(g) for g in group_ids)
RECURSIVE Join(_)
Join(group_ids) ==
    IF group_ids = <<>> THEN <<>> ELSE Str(Head(group_ids)) \o Join(Tail(group_ids))

position(chain) ==
    IF chain.tier = None \/ chain.group_ids = <<>> THEN NoneValue
    ELSE <<chain.tier>> \o Join(SortedList(Range(chain.group_ids)))

\* DependencyTier.from_value: the tier whose value is the first character
from_value(value) ==
    IF value = <<>> THEN None
    ELSE IF value[1] \in DependencyTier THEN value[1]
    ELSE None

from_position(pos) ==
    IF pos = NoneValue \/ pos = <<>> THEN DependencyChain(None, <<>>)
    ELSE IF from_value(pos) = None THEN DependencyChain(None, <<>>)
    ELSE LET digits == SelectSeq(Tail(pos), IsDigit)
         IN  DependencyChain(from_value(pos), [i \in DOMAIN digits |-> DigitValue(digits[i])])

\* chains as _generate_dependency_chains builds them, sorted distinct group
\* ids drawn from a range that reaches MaxPositionId, next to chains without
\* tier or without group ids
PositionChains ==
    {DependencyChain(t, SortedList(g)) :
        t \in DependencyTier \cup {None},
        g \in SUBSET ({1, 2} \cup (8..MaxPositionId))}

InitPosition ==
    /\ ValidateIdle
    /\ GenIdle
    /\ segment = <<>>
    /\ probability_distribution = <<>>
    /\ args \in PositionChains
    /\ ret = <<>>

\* DependencyChain.from_position(chain.position)
CallFromPosition ==
    /\ ret = <<>>
    /\ ret' = <<[op |-> "from_position",
                 position |-> position(args),
                 chain |-> from_position(position(args))]>>
    /\ UNCHANGED <<segment, probability_distribution, args, validateVars, genVars>>

SpecPosition == InitPosition /\ [][CallFromPosition]_vars

(***************************************************************************)
(* Properties.                                                             *)
(***************************************************************************)
\* two chains have a group id in common
SharesGroup(a, b) ==
    \E i \in DOMAIN a.group_ids : \E j \in DOMAIN b.group_ids : a.group_ids[i] = b.group_ids[j]

\* no chain of the list is floating
NoFloating(cs) ==
    \A i \in DOMAIN cs :
        /\ cs[i].tier = SECONDARY =>
               \E j \in DOMAIN cs : cs[j].tier = PRIMARY /\ SharesGroup(cs[i], cs[j])
        /\ cs[i].tier = TERTIARY =>
               \E j \in DOMAIN cs : /\ cs[j].tier \in {PRIMARY, SECONDARY}
                                    /\ SharesGroup(cs[i], cs[j])

\* C1: the list returned by _validate_dependency_chains has no floating chain:
\* every SECONDARY chain shares a group id with a PRIMARY chain of the result,
\* every TERTIARY chain with a PRIMARY or SECONDARY chain of the result.
C1_NoFloatingReturned == vpc = "done" => NoFloating(chains)

\* C1 witness: a repair changed the list and a non-PRIMARY chain is returned
C1_Witness ==
    /\ vpc = "done"
    /\ chains # input_chains
    /\ \E i \in DOMAIN chains : chains[i].tier \in {SECONDARY, TERTIARY}

\* t1 is strictly closer to PRIMARY than t2
Higher(t1, t2) ==
    \/ t1 = PRIMARY /\ t2 \in {SECONDARY, TERTIARY}
    \/ t1 = SECONDARY /\ t2 = TERTIARY

\* C2: a.depends_on(b) is true iff both tiers are set, a's tier is strictly
\* higher (closer to PRIMARY) than b's and the two share a group id; it is
\* false whenever a tier is missing.
C2_DependsOnIff ==
    ret # <<>> =>
        /\ ret[1] = (/\ args.self.tier # None
                     /\ args.other.tier # None
                     /\ Higher(args.self.tier, args.other.tier)
                     /\ SharesGroup(args.self, args.other))
        /\ (args.self.tier = None \/ args.other.tier = None) => ret[1] = FALSE

\* C2 witness: a call that returned True
C2_Witness == ret = <<TRUE>> /\ args.self.tier = SECONDARY

C5_SingleFacility ==
    /\ (gpc \in {"facilities", "done"} /\ count = 1) =>
           /\ chains = <<DependencyChain(PRIMARY, <<1>>)>>
           /\ vpc = "idle"
           /\ passes = 0
    /\ (gpc = "done" /\ config.facilities_per_installation = <<1, 1>>) =>
           /\ Len(facilities) = 1
           /\ facilities[1].dependency_chain = DependencyChain(PRIMARY, <<1>>)

\* C5 witness: generate_installation has returned under the range (1,1)
C5_Witness == gpc = "done" /\ config.facilities_per_installation = <<1, 1>>

\* how many of the grades are at least k, as a percentage compared with 70
SeventyPercent(grades, k) ==
    100 * Cardinality({i \in DOMAIN grades : grades[i] >= k}) >= 70 * Len(grades)

\* C4: for a non-empty list of grades in 1..4 the aggregate is G4 if at least
\* 70% are >= 4, else G3 if at least 70% are >= 3, else G2 if at least 70% are
\* >= 2, else G1; 10 dependents with exactly 8 of grade >= 3 and fewer than 7
\* of grade 4 give G3.
C4_MajorityRule ==
    (ret # <<>> /\ args # <<>> /\ \A i \in DOMAIN args : args[i] \in 1..4) =>
        /\ ret[1] = (IF SeventyPercent(args, 4) THEN 4
                     ELSE IF SeventyPercent(args, 3) THEN 3
                     ELSE IF SeventyPercent(args, 2) THEN 2
                     ELSE 1)
        /\ (/\ Len(args) = 10
            /\ Cardinality({i \in DOMAIN args : args[i] >= 3}) = 8
            /\ Cardinality({i \in DOMAIN args : args[i] = 4}) < 7) => ret[1] = 3

\* C4 witness: 10 graded dependents, 8 of grade >= 3, fewer than 7 of grade 4
C4_Witness ==
    /\ ret = <<3>>
    /\ Len(args) = 10
    /\ \A i \in DOMAIN args : args[i] \in 1..4
    /\ Cardinality({i \in DOMAIN args : args[i] >= 3}) = 8
    /\ Cardinality({i \in DOMAIN args : args[i] = 4}) < 7

\* the call in `ret` is one of the two months-to-degradation functions
MonthsCall ==
    /\ ret # <<>>
    /\ ret[1].op \in {"_calculate_months_to_degradation", "_compute_months_to_degradation"}

\* C6: whatever the age (zero and negative included) and the initial
\* condition index, current_ci <= threshold gives exactly 0 months, in the
\* decay model and in the label oracle.
C6_DegradedIsZero ==
    (MonthsCall /\ args.current_ci <= args.degradation_threshold) => ret[1].months = 0

\* C6 witness: the oracle returned 0 at the threshold itself, for a negative age
C6_Witness ==
    /\ MonthsCall
    /\ ret[1].op = "_compute_months_to_degradation"
    /\ args.current_ci = args.degradation_threshold
    /\ args.age_months < 0
    /\ ret[1].months = 0

\* C7: above the threshold, an input whose decay rate is undefined
\* (age_months <= 0, or current_ci >= initial_ci, or initial_ci <= 0) gives
\* the sentinel 999 in both functions; condition_index 99.99 at age 0 gives 999.
C7_UndefinedRateIsSentinel ==
    (/\ MonthsCall
     /\ args.current_ci > args.degradation_threshold
     /\ \/ args.age_months <= 0
        \/ args.current_ci >= args.initial_ci
        \/ args.initial_ci <= 0) => ret[1].months = 999

\* C7 witness: condition_index 99.99, age_months 0, the default model
C7_Witness ==
    /\ MonthsCall
    /\ ret[1].op = "_calculate_months_to_degradation"
    /\ args.current_ci = Cents(9999)
    /\ args.age_months = 0
    /\ args.initial_ci = Cents(9999)
    /\ args.degradation_threshold = Cents(2500)
    /\ ret[1].months = 999

\* C8 as stated: with current_ci above the threshold, a rate >= 1 handed to
\* the threshold solver gives 0: in _months_until_threshold called with R, in
\* _months_until_threshold called with the fast rate R * 1.5, and in the oracle.
C8_RateAtLeastOneIsZero ==
    (ret # <<>> /\ args.current_ci > args.degradation_threshold) =>
        /\ (/\ ret[1].op = "predict_with_uncertainty"
            /\ ret[1].prediction.fast_decay # <<>>
            /\ ret[1].prediction.fast_decay[1] >= RateDen) =>
               ret[1].prediction.confidence_low = 0
        /\ (/\ ret[1].op = "predict_with_uncertainty"
            /\ ret[1].prediction.decay_rate # <<>>
            /\ ret[1].prediction.decay_rate[1] >= RateDen) =>
               ret[1].prediction.months_to_degradation = 0
        /\ (/\ ret[1].op = "_calculate_months_to_degradation"
            /\ calculate_decay_rate(args.current_ci, args.age_months, args.initial_ci) # <<>>
            /\ calculate_decay_rate(args.current_ci, args.age_months, args.initial_ci)[1]
                   >= RateDen) =>
               ret[1].months = 0
        /\ (/\ ret[1].op = "_compute_months_to_degradation"
            /\ compute_decay_rate(args.current_ci, args.age_months, args.initial_ci) # <<>>
            /\ compute_decay_rate(args.current_ci, args.age_months, args.initial_ci)[1]
                   >= RateDen) =>
               ret[1].months = 0

\* C9 as stated: a trajectory has at most 121 entries, its month offsets are
\* 0, 1, 2, ... and its condition indices never increase from one entry to
\* the next, the step from the first entry to the second included.
C9_TrajectoryShape ==
    Running # <<>> =>
        LET trajectory == Running[1].trajectory
        IN  /\ Len(trajectory) <= 121
            /\ \A i \in DOMAIN trajectory : trajectory[i][1] = i - 1
            /\ \A i \in 1..(Len(trajectory) - 1) : trajectory[i + 1][2] <= trajectory[i][2]

\* C10: a segment whose value is a fixed integer samples exactly that
\* integer; a range segment samples within [min, max] inclusive, where
\* min <= max also for a reversed range such as "40-20".
C10_SampleWithinValue ==
    (segment # <<>> /\ ret # <<>> /\ ret[1].op = "sample") =>
        LET parsed == parse_value(segment[1]._value)
        IN  /\ parsed.kind = "int" => ret[1].value = parsed.left * SampleDen
            /\ parsed.kind = "tuple" =>
                   /\ parsed.left <= parsed.right
                   /\ parsed.left * SampleDen <= ret[1].value
                   /\ ret[1].value <= parsed.right * SampleDen
            /\ segment[1]._value = <<"4", "0", "-", "2", "0">> =>
                   /\ parsed = ParsedTuple(20, 40)
                   /\ 20 * SampleDen <= ret[1].value
                   /\ ret[1].value <= 40 * SampleDen

\* C10 witness: the reversed range "40-20" sampled strictly inside (20, 40)
C10_Witness ==
    /\ segment # <<>>
    /\ segment[1]._value = <<"4", "0", "-", "2", "0">>
    /\ ret # <<>>
    /\ ret[1].op = "sample"
    /\ ret[1].value > 20 * SampleDen
    /\ ret[1].value < 40 * SampleDen

Blank(value) == \A i \in DOMAIN value : value[i] = " "

Rejected(call) == call.raised = "ValueError"

\* C11: the constructor of a segment raises ValueError exactly for a
\* percentage outside [1,100] or a None, empty or blank value, and builds no
\* segment then; the constructor of a distribution raises exactly for no
\* segments; the setters raise for the same inputs, and a setter call that
\* raises leaves percentage, value string and parsed value as they were.
C11_InvalidInputRejected ==
    /\ [](ret # <<>> =>
            /\ ret[1].op = "ProbabilitySegment" =>
                   /\ Rejected(ret[1]) <=>
                          \/ ret[1].percentage < 1
                          \/ ret[1].percentage > 100
                          \/ ret[1].assigned = NoneValue
                          \/ Blank(ret[1].assigned)
                   /\ Rejected(ret[1]) => segment = <<>>
            /\ ret[1].op = "ProbabilityDistribution" =>
                   /\ Rejected(ret[1]) <=> Len(ret[1].segments) = 0
                   /\ Rejected(ret[1]) => probability_distribution = <<>>
            /\ ret[1].op = "value.setter" =>
                   (Rejected(ret[1]) <=>
                        (ret[1].assigned = NoneValue \/ Blank(ret[1].assigned)))
            /\ ret[1].op = "percentage.setter" =>
                   (Rejected(ret[1]) <=> (ret[1].percentage < 1 \/ ret[1].percentage > 100)))
    /\ [][(/\ ret'[1].op \in {"value.setter", "percentage.setter"}
           /\ Rejected(ret'[1])) => segment' = segment]_vars

\* C11 witness: the value setter has rejected a blank string on a segment
\* whose cache was filled
C11_Witness ==
    /\ segment # <<>>
    /\ segment[1]._parsed_value # ParsedNone
    /\ ret # <<>>
    /\ ret[1].op = "value.setter"
    /\ ret[1].assigned = <<" ">>
    /\ Rejected(ret[1])

Unparsable(value) == parse_value(value).kind = "None"

\* C12 as stated: a value string that parses to neither a number nor a
\* range ("abc", "1-2-3", "-5") makes the constructor raise, so no segment
\* holds an unparsable value and sample() never falls back to its default.
C12_MalformedRaisesAtConstruction ==
    /\ (ret # <<>> /\ ret[1].op = "ProbabilitySegment" /\ Unparsable(ret[1].assigned)) =>
           Rejected(ret[1])
    /\ segment # <<>> => ~Unparsable(segment[1]._value)
    /\ (ret # <<>> /\ ret[1].op = "sample" /\ segment # <<>>
            /\ ~(segment[1]._parsed_value.kind = "int"
                     /\ segment[1]._parsed_value.left = FallbackSample)) =>
           ret[1].value # FallbackSample * SampleDen

\* C13: parsed_value is always the parse of the current value string: a
\* filled cache holds it, every read (parsed_value, is_range_value, sample)
\* returns from it and fills the cache, and a successful value assignment
\* stores the string and empties the cache.
C13_CacheFollowsValue ==
    segment # <<>> =>
        LET current == parse_value(segment[1]._value)
        IN  /\ segment[1]._parsed_value # ParsedNone => segment[1]._parsed_value = current
            /\ ret # <<>> =>
                   /\ ret[1].op = "parsed_value" =>
                          (ret[1].value = current /\ segment[1]._parsed_value = current)
                   /\ ret[1].op = "is_range_value" =>
                          /\ ret[1].is_range <=> current.kind = "tuple"
                          /\ segment[1]._parsed_value = current
                   /\ ret[1].op = "sample" =>
                          /\ segment[1]._parsed_value = current
                          /\ \E u \in 0..SampleDen : ret[1].value = sample(current, u)
                   /\ (ret[1].op = "value.setter" /\ ~Rejected(ret[1])) =>
                          /\ segment[1]._value = ret[1].assigned
                          /\ segment[1]._parsed_value = ParsedNone

\* C13 witness: "50" read back as the integer 50 from a filled cache; the
\* constructor and the setter both lead here
C13_Witness ==
    /\ segment # <<>>
    /\ segment[1]._value = <<"5", "0">>
    /\ segment[1]._parsed_value = ParsedInt(50)
    /\ ret # <<>>
    /\ ret[1].op = "parsed_value"
    /\ ret[1].value = ParsedInt(50)

\* the condition indices present among `children`
PresentValues(children) == SelectSeq(children, LAMBDA c : c # NoCI)

\* `aggregate` is the mean of `children`, rounded to a hundredth, of the
\* values that are present; it is absent exactly when none is
MeanOfPresent(aggregate, children) ==
    LET present == PresentValues(children)
        diff == Len(present) * aggregate - Sum(present)
    IN  IF present = <<>> THEN aggregate = NoCI
        ELSE /\ aggregate # NoCI
             /\ 2 * diff <= Len(present)
             /\ 2 * diff >= 0 - Len(present)

SystemsOf(facility, all_systems) ==
    SelectSeq(all_systems, LAMBDA sys : sys.facility_id = facility.id)

ConditionIndices(entities) == [k \in DOMAIN entities |-> entities[k].condition_index]

\* C14 as stated: once generate_installation has returned, every facility's
\* condition index is the rounded mean of its systems' condition indices and
\* the installation's is the rounded mean of its facilities'; a value of 0
\* enters the mean like any other, and the aggregate is absent exactly when
\* no child has a value.
C14_ConditionIndexIsMean ==
    gpc = "done" =>
        /\ \A i \in DOMAIN facilities :
               MeanOfPresent(facilities[i].condition_index,
                             ConditionIndices(SystemsOf(facilities[i], systems)))
        /\ MeanOfPresent(installation[1].condition_index, ConditionIndices(facilities))

Ids(entities) == [k \in DOMAIN entities |-> entities[k].id]

\* the foreign keys of one installation and the facilities and systems
\* returned with it
ForeignKeys(inst, fs, ss) ==
    /\ inst.facility_ids = Ids(SelectSeq(fs, LAMBDA f : f.installation_id = inst.id))
    /\ Len(inst.facility_ids) >= config.facilities_per_installation[1]
    /\ Len(inst.facility_ids) <= config.facilities_per_installation[2]
    /\ \A i \in DOMAIN fs :
           fs[i].installation_id = inst.id =>
               fs[i].system_ids = Ids(SelectSeq(ss, LAMBDA sys : sys.facility_id = fs[i].id))

\* C15: after generate_installation the number of facilities is within the
\* configured range, facility_ids lists the returned facilities in order,
\* every facility names the installation, system_ids lists in order the
\* returned systems of the facility, and every system names a returned
\* facility; generate_installations(N) returns N installations and the
\* concatenation of their facility and system lists, with the same relations.
C15_ForeignKeys ==
    /\ gpc = "done" =>
           /\ ForeignKeys(installation[1], facilities, systems)
           /\ installation[1].facility_ids = Ids(facilities)
           /\ \A i \in DOMAIN facilities : facilities[i].installation_id = installation[1].id
           /\ \A j \in DOMAIN systems :
                  \E i \in DOMAIN facilities : systems[j].facility_id = facilities[i].id
    /\ gpc = "returned" =>
           /\ Len(generated.installations) = args.count
           /\ \A n \in DOMAIN generated.installations :
                  ForeignKeys(generated.installations[n], generated.facilities,
                              generated.systems)
           /\ Ids(generated.facilities) =
                  Flatten([n \in DOMAIN generated.installations |->
                              generated.installations[n].facility_ids])
           /\ Ids(generated.systems) =
                  Flatten([i \in DOMAIN generated.facilities |->
                              generated.facilities[i].system_ids])
           /\ \A i \in DOMAIN generated.facilities :
                  \E n \in DOMAIN generated.installations :
                      generated.facilities[i].installation_id = generated.installations[n].id
           /\ \A j \in DOMAIN generated.systems :
                  \E i \in DOMAIN generated.facilities :
                      generated.systems[j].facility_id = generated.facilities[i].id

\* C15 witness: generate_installations(2) has returned two installations of
\* two facilities each, one of them with two systems
C15_Witness ==
    /\ gpc = "returned"
    /\ args.count = 2
    /\ Len(generated.installations) = 2
    /\ Len(generated.facilities) = 4
    /\ \E i \in DOMAIN generated.facilities : Len(generated.facilities[i].system_ids) = 2

RateCall ==
    /\ ret # <<>>
    /\ ret[1].op \in {"_calculate_decay_rate", "_compute_decay_rate"}

LabelCall == ret # <<>> /\ ret[1].op = "_compute_degradation_rate"

\* 0 < current_ci / initial_ci < 1, for any sign of initial_ci
RatioInside ==
    \/ args.initial_ci > 0 /\ 0 < args.current_ci /\ args.current_ci < args.initial_ci
    \/ args.initial_ci < 0 /\ 0 > args.current_ci /\ args.current_ci > args.initial_ci

RateDefined ==
    /\ args.age_months > 0
    /\ args.current_ci > 0
    /\ args.initial_ci > 0
    /\ args.current_ci < args.initial_ci

LabelOf(label_type) ==
    compute_label(args.entity, label_type, args.initial_ci, args.degradation_threshold)

WillDegrade == {WILL_DEGRADE_6MO, WILL_DEGRADE_12MO, WILL_DEGRADE_24MO}

Horizon(label_type) ==
    IF label_type = WILL_DEGRADE_6MO THEN 6
    ELSE IF label_type = WILL_DEGRADE_12MO THEN 12
    ELSE 24

\* C17 as stated: the will-degrade-within-N label of an entity is 1 exactly
\* when its months-to-degradation label is <= N; the labels are monotone in
\* N; an entity whose condition index is at or below the threshold gets 1 for
\* all three, and an entity with the sentinel 999 gets 0 for all three.
C17_LabelsThresholdMonths ==
    (ret # <<>> /\ ret[1].op = "_compute_label" /\ args.label_type \in WillDegrade) =>
        /\ ret[1].label = 1 <=> LabelOf(MONTHS_TO_DEGRADATION) <= Horizon(args.label_type)
        /\ ret[1].label \in {0, 1}
        /\ LabelOf(WILL_DEGRADE_6MO) = 1 => LabelOf(WILL_DEGRADE_12MO) = 1
        /\ LabelOf(WILL_DEGRADE_12MO) = 1 => LabelOf(WILL_DEGRADE_24MO) = 1
        /\ LabelOf(MONTHS_TO_DEGRADATION) = Sentinel => ret[1].label = 0
        /\ (/\ args.entity.condition_index # <<>>
            /\ args.entity.condition_index[1] <= args.degradation_threshold) =>
               ret[1].label = 1

PredictCall == ret # <<>> /\ ret[1].op = "predict_with_uncertainty"

\* C18 as stated: with a defined rate R, confidence_low is the forward
\* solution at R * 1.5 and confidence_high the one at R * 0.5, and
\* confidence_low <= months_to_degradation <= confidence_high for every row;
\* with an undefined rate the bounds are 0.5 and 2.0 times the central
\* prediction.  (The bounds are in half months.)
C18_BoundsBracketCentral ==
    PredictCall =>
        LET p == ret[1].prediction
        IN  /\ p.decay_rate # <<>> =>
                   /\ p.fast_decay = <<(3 * p.decay_rate[1]) \div 2>>
                   /\ p.slow_decay = <<p.decay_rate[1] \div 2>>
                   /\ p.confidence_low =
                          2 * months_until_threshold(args.current_ci, p.fast_decay[1],
                                                     args.degradation_threshold)
                   /\ p.confidence_high =
                          2 * months_until_threshold(args.current_ci, p.slow_decay[1],
                                                     args.degradation_threshold)
            /\ p.decay_rate = <<>> =>
                   /\ p.confidence_low = p.months_to_degradation
                   /\ p.confidence_high = 4 * p.months_to_degradation
            /\ p.confidence_low <= 2 * p.months_to_degradation
            /\ 2 * p.months_to_degradation <= p.confidence_high

SelectCall == ret # <<>> /\ ret[1].op = "select_random_segment"

\* the cumulative weight after segment i, normalized by the total of all
\* percentages, strictly exceeds the draw rand[1] / rand[2]
ExceedsDraw(segments, i, rand) ==
    SumPercentage(segments, i) * rand[2] > rand[1] * SumPercentage(segments, Len(segments))

\* C19: select_random_segment returns the first segment in list order whose
\* normalized cumulative weight strictly exceeds the draw, the last segment
\* if none does; it always returns a member of the distribution, and every
\* segment is returned for some draw.
C19_FirstSegmentExceedingDraw ==
    /\ SelectCall =>
           LET segments == probability_distribution[1]._segments
               i == ret[1].index
           IN  /\ i \in DOMAIN segments
               /\ ret[1].segment = segments[i]
               /\ ExceedsDraw(segments, i, ret[1].rand)
                      \/ (i = Len(segments)
                              /\ \A j \in DOMAIN segments : ~ExceedsDraw(segments, j, ret[1].rand))
               /\ \A j \in 1..(i - 1) : ~ExceedsDraw(segments, j, ret[1].rand)
    /\ probability_distribution # <<>> =>
           LET segments == probability_distribution[1]._segments
           IN  \A i \in DOMAIN segments :
                   \E k \in 0..(SumPercentage(segments, Len(segments)) - 1) :
                       select_random_segment(segments, k) = i

\* C19 witness: percentages 100, 2, 1 (total 103) and the draw 102/103, which
\* selects the last segment
C19_Witness ==
    /\ SelectCall
    /\ Len(probability_distribution[1]._segments) = 3
    /\ probability_distribution[1]._segments[1]._percentage = 100
    /\ probability_distribution[1]._segments[2]._percentage = 2
    /\ probability_distribution[1]._segments[3]._percentage = 1
    /\ ret[1].rand = <<102, 103>>
    /\ ret[1].index = 3

\* the facilities of the list whose tier is in `tiers` and whose chain shares
\* a group id with facility i's chain
Dependents(i, tiers) ==
    {k \in DOMAIN facilities :
        /\ facilities[k].dependency_chain.tier \in tiers
        /\ SharesGroup(facilities[i].dependency_chain, facilities[k].dependency_chain)}

\* at least 70% of the facilities of S have a grade >= k
SeventyPercentOf(S, k) ==
    100 * Cardinality({j \in S : facilities[j].resiliency_grade >= k}) >= 70 * Cardinality(S)

\* the majority-rule aggregate over the grades of the facilities of S
AggregateOver(S) ==
    IF SeventyPercentOf(S, 4) THEN G4
    ELSE IF SeventyPercentOf(S, 3) THEN G3
    ELSE IF SeventyPercentOf(S, 2) THEN G2
    ELSE G1

\* facility i's grade is the aggregate over S, or a draw when S is empty
GradeFollows(i, S) ==
    IF S = {}
    THEN facilities[i].resiliency_grade \in SampleGrade(config.grade_distribution)
    ELSE facilities[i].resiliency_grade = AggregateOver(S)

\* C20: when _assign_resiliency_grades has returned, every TERTIARY facility's
\* grade is a draw from the grade distribution; every SECONDARY facility's
\* grade is the majority-rule aggregate over exactly the TERTIARY facilities of
\* the list that share a group id with it, or a draw when there is none; every
\* PRIMARY facility's grade is the aggregate over exactly its TERTIARY and
\* SECONDARY dependents together, or a draw when there is none.
C20_GradesFollowDependents ==
    gpc = "done" =>
        \A i \in DOMAIN facilities :
            LET tier == facilities[i].dependency_chain.tier
            IN  /\ tier = TERTIARY =>
                       facilities[i].resiliency_grade \in SampleGrade(config.grade_distribution)
                /\ tier = SECONDARY => GradeFollows(i, Dependents(i, {TERTIARY}))
                /\ tier = PRIMARY => GradeFollows(i, Dependents(i, {TERTIARY, SECONDARY}))

\* C20 witness: a PRIMARY facility graded G1 over a TERTIARY dependent graded
\* G4 and a SECONDARY dependent graded G1, next to a SECONDARY facility that
\* has no TERTIARY dependent and whose grade is a draw
C20_Witness ==
    /\ gpc = "done"
    /\ \E p, s, t \in DOMAIN facilities :
           /\ facilities[p].dependency_chain.tier = PRIMARY
           /\ facilities[s].dependency_chain.tier = SECONDARY
           /\ facilities[t].dependency_chain.tier = TERTIARY
           /\ Dependents(p, {TERTIARY, SECONDARY}) = {s, t}
           /\ Dependents(s, {TERTIARY}) = {}
           /\ facilities[t].resiliency_grade = G4
           /\ facilities[s].resiliency_grade = G1
           /\ facilities[p].resiliency_grade = G1

\* C21: with an empty dependents list _calculate_grade_from_dependents returns
\* the grade _sample_grade draws, one of G1..G4; with a non-empty list in which
\* no dependent carries a grade it returns G1 whatever would have been drawn.
C21_EmptyDrawsUngradedG1 ==
    ret # <<>> =>
        /\ args = <<>> => ret[1] \in UFCGrade
        /\ (args # <<>> /\ \A i \in DOMAIN args : args[i] = NoGrade) => ret[1] = G1

\* C21 witness: the call on an empty list returned G4, which the all-missing
\* path never returns
C21_Witness == args = <<>> /\ ret = <<G4>>

\* chain c has support in the list cs: a SECONDARY chain shares a group id with
\* a PRIMARY chain of cs, a TERTIARY chain with a PRIMARY or SECONDARY one
Supported(cs, c) ==
    \/ /\ c.tier = SECONDARY
       /\ \E j \in DOMAIN cs : cs[j].tier = PRIMARY /\ SharesGroup(c, cs[j])
    \/ /\ c.tier = TERTIARY
       /\ \E j \in DOMAIN cs : cs[j].tier \in {PRIMARY, SECONDARY} /\ SharesGroup(c, cs[j])

\* the PRIMARY chain that takes the place of a promoted chain c
Promoted(c) ==
    DependencyChain(PRIMARY, IF c.group_ids # <<>> THEN <<c.group_ids[1]>> ELSE <<1>>)

\* a step of the behaviour is one pass of the repair loop
IsPass == vpc = "loop" /\ passes' = passes + 1

\* what one pass does to the list apart from group ids being added: length and
\* order are kept, PRIMARY, supported and tier-less chains are carried over,
\* every other chain is replaced by its promotion, and none is demoted
PassFrame ==
    /\ Len(chains') = Len(chains)
    /\ \A i \in DOMAIN chains :
           /\ (chains[i].tier \in {PRIMARY, None} \/ Supported(chains, chains[i])) =>
                  chains'[i] = chains[i]
           /\ chains'[i] # chains[i] => chains'[i] = Promoted(chains[i])
           /\ ~Higher(chains[i].tier, chains'[i].tier)
           /\ chains[i].tier = None <=> chains'[i].tier = None

\* C22 as stated: the list returned has the length of the input; each pass
\* keeps length and order, carries over every chain that is PRIMARY or
\* supported in its snapshot, replaces every promoted chain by a PRIMARY chain
\* holding its first group id ([1] if it had none), demotes no chain, and adds
\* no group id to any chain.
C22_Original ==
    /\ [](vpc \in {"loop", "done"} => Len(chains) = Len(input_chains))
    /\ [][IsPass =>
            /\ PassFrame
            /\ \A i \in DOMAIN chains :
                   Range(chains'[i].group_ids) \subseteq Range(chains[i].group_ids)]_vars

\* C22 amended: as above, except that no group id is added to a chain that
\* has one; a promoted chain without group ids receives the group id 1.
C22_Amended ==
    /\ [](vpc \in {"loop", "done"} => Len(chains) = Len(input_chains))
    /\ [][IsPass =>
            /\ PassFrame
            /\ \A i \in DOMAIN chains :
                   /\ chains[i].group_ids # <<>> =>
                          Range(chains'[i].group_ids) \subseteq Range(chains[i].group_ids)
                   /\ (chains[i].group_ids = <<>> /\ chains'[i] # chains[i]) =>
                          chains'[i].group_ids = <<1>>]_vars

\* C22 witness: the call returned a list in which a SECONDARY chain holding two
\* group ids was promoted to PRIMARY with its first group id while a TERTIARY
\* chain it supports was carried over
C22_Witness ==
    /\ vpc = "done"
    /\ \E i, j \in DOMAIN chains :
           /\ input_chains[i].tier = SECONDARY
           /\ Len(input_chains[i].group_ids) = 2
           /\ chains[i] = DependencyChain(PRIMARY, <<input_chains[i].group_ids[1]>>)
           /\ input_chains[j].tier = TERTIARY
           /\ chains[j] = input_chains[j]

\* the call in `ret` is _get_sample_points
SamplePointsCall == ret # <<>> /\ ret[1].op = "_get_sample_points"

\* the months the adaptive density asks for at the age `age`
ExpectedPoints(age) ==
    {m \in 0..age :
        \/ m <= 24
        \/ m >= 27 /\ m <= 120 /\ (m - 27) % 3 = 0
        \/ m >= 132 /\ (m - 132) % 12 = 0
        \/ m = age}

\* C23: for age_months >= 1 the list _get_sample_points returns is strictly
\* increasing, starts at 0, ends at age_months, lies within [0, age_months] and
\* holds exactly every month up to min(24, age_months), every third month from
\* 27 up to min(120, age_months), every twelfth month from 132 up to
\* age_months, and age_months itself.
C23_SamplePoints ==
    (SamplePointsCall /\ args.age_months >= 1) =>
        LET points == ret[1].points
        IN  /\ \A i \in 1..(Len(points) - 1) : points[i] < points[i + 1]
            /\ points[1] = 0
            /\ points[Len(points)] = args.age_months
            /\ Range(points) = ExpectedPoints(args.age_months)
            /\ \A i \in DOMAIN points : points[i] >= 0 /\ points[i] <= args.age_months

\* C23 witness: an age beyond the last yearly point, which the list holds
\* after the monthly, quarterly and yearly points
C23_Witness ==
    /\ SamplePointsCall
    /\ args.age_months = 145
    /\ {24, 27, 120, 132, 144, 145} \subseteq Range(ret[1].points)
    /\ {25, 26, 121, 123, 131, 143} \cap Range(ret[1].points) = {}

\* the call in `ret` is _calculate_historical_ci
HistoricalCall == ret # <<>> /\ ret[1].op = "_calculate_historical_ci"

\* age in months of the entity of the call in `args`
AgeOfCall == (args.now.year - args.year_constructed) * 12 + args.now.month - 1

\* the decay rate of the call in `args` is undefined
RateUndefined ==
    \/ AgeOfCall <= 0
    \/ args.current_ci <= 0
    \/ args.current_ci >= args.initial_ci

SimpleSegmentsOf(distribution) ==
    [i \in DOMAIN distribution |->
        LET parsed == parse_value(distribution[i]._value)
        IN  SimpleSegment(distribution[i]._percentage, parsed.left, parsed.right)]

\* the same segments whatever the order
SameSegments(a, b) == Range(a) = Range(b)

\* C25: a DataGenerator built from settings takes its facility-count range, its
\* dependency-group range and its maximum ages from the settings, and samples
\* condition index, age and grade from the three distributions of the
\* settings: every generated grade and condition index is a value the
\* settings' distribution yields.
C25_ConfigurationConsumed ==
    (gpc # "idle" /\ DOMAIN args = {"settings"}) =>
        LET settings == args.settings
        IN  /\ config.facilities_per_installation = settings.simulation.facilities_per_installation
            /\ config.dependency_group_range = settings.simulation.dependency_chain_group_range
            /\ config.max_facility_age = settings.simulation.maximum_facility_age
            /\ config.max_system_age = settings.simulation.maximum_system_age
            /\ SameSegments(config.condition_index_distribution,
                            SimpleSegmentsOf(settings.distributions.condition_index))
            /\ SameSegments(config.age_distribution,
                            SimpleSegmentsOf(settings.distributions.age))
            /\ SameSegments(config.grade_distribution,
                            SimpleSegmentsOf(settings.distributions.grade))
            /\ \A i \in DOMAIN systems :
                   systems[i].condition_index \in
                       SampleConditionIndex(SimpleSegmentsOf(settings.distributions.condition_index))
            /\ gpc = "done" =>
                   \A i \in DOMAIN facilities :
                       facilities[i].resiliency_grade \in
                           SampleGrade(SimpleSegmentsOf(settings.distributions.grade))

\* the part of C25 that holds: the ranges and maximum ages are the settings'
C25_RangesConsumed ==
    (gpc # "idle" /\ DOMAIN args = {"settings"}) =>
        /\ config.facilities_per_installation = args.settings.simulation.facilities_per_installation
        /\ config.dependency_group_range = args.settings.simulation.dependency_chain_group_range
        /\ config.max_facility_age = args.settings.simulation.maximum_facility_age
        /\ config.max_system_age = args.settings.simulation.maximum_system_age

\* C26: the repair loop ends by a pass that changed nothing, never by its cap:
\* at most two passes promote a chain, so the loop is left after three passes
\* at the latest; PRIMARY chains are never altered and a SECONDARY chain that
\* has support keeps it through every pass.
C26_FixedPointWithinThreePasses ==
    /\ [](/\ vpc = "loop" => passes <= 2
          /\ vpc = "done" => fixed /\ passes <= 3 /\ passes < MaxIterations)
    /\ [][IsPass =>
            \A i \in DOMAIN chains :
                /\ chains[i].tier = PRIMARY => chains'[i] = chains[i]
                /\ (chains[i].tier = SECONDARY /\ Supported(chains, chains[i])) =>
                       (chains'[i].tier = SECONDARY /\ Supported(chains', chains'[i]))]_vars

\* C26 witness: a call that needed three passes, a TERTIARY chain having lost
\* its support to the promotion of a SECONDARY chain in the first
C26_Witness ==
    /\ vpc = "done"
    /\ fixed
    /\ passes = 3
    /\ \E i \in DOMAIN chains : input_chains[i].tier = TERTIARY /\ chains[i].tier = PRIMARY

\* _generate_dependency_chains has returned to _generate_facilities
ChainsReturned == gpc \notin {"idle", "start", "chains"} /\ vpc # "loop"

\* C27: for every facility count >= 1 the chains _generate_dependency_chains
\* returns, one per facility, contain at least one PRIMARY chain.
C27_SomePrimary ==
    (ChainsReturned /\ count >= 1) =>
        /\ Len(chains) = count
        /\ \E i \in DOMAIN chains : chains[i].tier = PRIMARY

\* C27 witness: the sampling loop drew no PRIMARY chain and the repair pass
\* returned a list with one
C27_Witness ==
    /\ ChainsReturned
    /\ count >= 2
    /\ \A i \in DOMAIN input_chains : input_chains[i].tier # PRIMARY
    /\ \E i \in DOMAIN chains : chains[i].tier = PRIMARY
    /\ \E i \in DOMAIN chains : chains[i].tier # PRIMARY

\* every facility of the tiers carries a grade
Graded(tiers) ==
    \A i \in DOMAIN facilities :
        facilities[i].dependency_chain.tier \in tiers =>
            facilities[i].resiliency_grade \in UFCGrade

\* no facility of the tiers carries a grade
Ungraded(tiers) ==
    \A i \in DOMAIN facilities :
        facilities[i].dependency_chain.tier \in tiers =>
            facilities[i].resiliency_grade = NoGrade

\* C28: grades are assigned bottom-up: when the SECONDARY loop starts every
\* TERTIARY facility is graded and no other, when the PRIMARY loop starts every
\* TERTIARY and SECONDARY facility is graded and no PRIMARY one, so that every
\* dependent a grade is aggregated over carries a grade; once
\* generate_installation has returned every facility has a tier and a grade
\* in G1..G4.
C28_BottomUp ==
    /\ gpc = "grades_secondary" =>
           /\ Graded({TERTIARY}) /\ Ungraded({SECONDARY, PRIMARY})
           /\ \A i \in DOMAIN facilities :
                  facilities[i].dependency_chain.tier = SECONDARY =>
                      \A k \in Dependents(i, {TERTIARY}) :
                          facilities[k].resiliency_grade # NoGrade
    /\ gpc = "grades_primary" =>
           /\ Graded({TERTIARY, SECONDARY}) /\ Ungraded({PRIMARY})
           /\ \A i \in DOMAIN facilities :
                  facilities[i].dependency_chain.tier = PRIMARY =>
                      \A k \in Dependents(i, {TERTIARY, SECONDARY}) :
                          facilities[k].resiliency_grade # NoGrade
    /\ gpc = "done" =>
           /\ Graded({PRIMARY, SECONDARY, TERTIARY})
           /\ \A i \in DOMAIN facilities :
                  facilities[i].dependency_chain.tier \in DependencyTier

\* C28 witness: the PRIMARY loop is about to grade a facility that has a
\* graded TERTIARY and a graded SECONDARY dependent
C28_Witness ==
    /\ gpc = "grades_primary"
    /\ \E p, s, t \in DOMAIN facilities :
           /\ facilities[p].dependency_chain.tier = PRIMARY
           /\ facilities[p].resiliency_grade = NoGrade
           /\ s \in Dependents(p, {SECONDARY})
           /\ t \in Dependents(p, {TERTIARY})
           /\ facilities[s].resiliency_grade \in UFCGrade
           /\ facilities[t].resiliency_grade \in UFCGrade

\* both months functions have been called on the arguments in `args`
BothMonthsCall == ret # <<>> /\ ret[1].op = "months_to_degradation"

\* C29: for every current_ci and age_months, under the same threshold and
\* initial CI, _compute_months_to_degradation returns the value
\* _calculate_months_to_degradation returns.
C29_OracleIsModel == BothMonthsCall => ret[1].label = ret[1].months

\* the part of C29 that holds: the two agree whenever the rate of the
\* arguments is undefined or below 1
C29_AgreeBelowOne ==
    (BothMonthsCall /\ (ret[1].rate = <<>> \/ ret[1].rate[1] < RateDen)) =>
        ret[1].label = ret[1].months

\* from_position has been called on the position of the chain in `args`
PositionCall == ret # <<>> /\ ret[1].op = "from_position"

\* the chain in `args` has a tier and group ids
Positioned == args.tier # None /\ args.group_ids # <<>>

\* the chain returned has the tier and the set of group ids of the chain in
\* `args`, or is the empty chain when that chain has no position
RoundTrips ==
    IF Positioned
    THEN /\ ret[1].chain.tier = args.tier
         /\ Range(ret[1].chain.group_ids) = Range(args.group_ids)
    ELSE /\ ret[1].position = NoneValue
         /\ ret[1].chain = DependencyChain(None, <<>>)

\* C30: from_position(chain.position) has the tier and the set of group ids
\* of the chain, for every chain with a tier and group ids from any range,
\* ids of 10 or more included; a chain without tier or group ids has the
\* position None, which from_position turns into the empty chain.
C30_PositionRoundTrip == PositionCall => RoundTrips

\* the part of C30 that holds: chains whose group ids are all below 10, and
\* chains without a position
C30_SingleDigitRoundTrip ==
    (PositionCall /\ \A i \in DOMAIN args.group_ids : args.group_ids[i] < 10) => RoundTrips

=============================================================================
